---- MODULE Spec2Model ----
(***************************************************************************)
(* Model of the stock-analysis valuation engine (utils/valuation), of the  *)
(* PricePredictor component that drives it, of StockPage with its data     *)
(* hook useStockPageData, of the normalisation of upstream answers in      *)
(* YahooFinanceProvider.getFinancialMetrics, and of the SearchBar.         *)
(*                                                                         *)
(* JavaScript numbers are modelled as exact sign-magnitude rationals       *)
(* extended with the IEEE-754 special values the code can produce by       *)
(* dividing by zero (+Infinity, -Infinity, NaN) and with null.  Products,  *)
(* quotients, sums and integer powers of finite values are exact.  The     *)
(* root taken by calculateCAGR is exact only when binary floating point    *)
(* can hold it; otherwise it is one of the two binary fractions of         *)
(* resolution 2^-UlpBits around the real root.                             *)
(***************************************************************************)
EXTENDS Integers, Sequences, FiniteSets, TLC

(***************************************************************************)
(* Bounds of the model.                                                    *)
(***************************************************************************)
MaxYears == 2

MaxEdits == 2

\* fractional bits of the binary fractions that stand for rounded values
UlpBits == 4

\* the clock stops at MaxNow minutes
MaxNow == 6

\* calls of getFullStockData in flight at one time
MaxInflight == 2

\* calls of searchStocks in flight at one time
MaxSearches == 2

(***************************************************************************)
(* JavaScript number values.                                               *)
(*   k = "fin" : the finite value s * n / d, n >= 0, d > 0, gcd(n,d) = 1   *)
(*               (n = 0 with s = -1 is the negative zero)                  *)
(*   k = "inf" : s * Infinity                                              *)
(*   k = "nan" : NaN                                                       *)
(*   k = "null": null (a FinancialMetrics field that is unknown)           *)
(***************************************************************************)
RECURSIVE GCD(_, _)
GCD(a, b) == IF b = 0 THEN a ELSE GCD(b, a % b)

Fin(s, n, d) ==
  LET g == GCD(n, d)
  IN  [k |-> "fin", s |-> s, n |-> n \div g, d |-> d \div g]

NaN == [k |-> "nan", s |-> 1, n |-> 0, d |-> 1]

Inf(s) == [k |-> "inf", s |-> s, n |-> 0, d |-> 1]

Null == [k |-> "null", s |-> 1, n |-> 0, d |-> 1]

\* the number literal n / d for an integer n and d > 0
R(n, d) == IF n < 0 THEN Fin(-1, -n, d) ELSE Fin(1, n, d)

I(n) == R(n, 1)

IsZero(x) == x.k = "fin" /\ x.n = 0

IsFinite(x) == x.k = "fin"

\* unary minus
Neg(x) == IF x.k \in {"fin", "inf"} THEN [x EXCEPT !.s = -x.s] ELSE x

\* a * b
Mul(a, b) ==
  IF a.k = "nan" \/ b.k = "nan" THEN NaN
  ELSE IF a.k = "inf" \/ b.k = "inf"
       THEN IF IsZero(a) \/ IsZero(b) THEN NaN ELSE Inf(a.s * b.s)
       ELSE LET g1 == GCD(a.n, b.d)
                g2 == GCD(b.n, a.d)
            IN  Fin(a.s * b.s, (a.n \div g1) * (b.n \div g2),
                               (a.d \div g2) * (b.d \div g1))

\* a / b
Div(a, b) ==
  IF a.k = "nan" \/ b.k = "nan" THEN NaN
  ELSE IF a.k = "inf"
       THEN IF b.k = "inf" THEN NaN ELSE Inf(a.s * b.s)
       ELSE IF b.k = "inf" THEN Fin(a.s * b.s, 0, 1)
       ELSE IF IsZero(b)
            THEN IF IsZero(a) THEN NaN ELSE Inf(a.s * b.s)
            ELSE LET g1 == GCD(a.n, b.n)
                     g2 == GCD(b.d, a.d)
                 IN  Fin(a.s * b.s, (a.n \div g1) * (b.d \div g2),
                                    (a.d \div g2) * (b.n \div g1))

\* a + b
Add(a, b) ==
  IF a.k = "nan" \/ b.k = "nan" THEN NaN
  ELSE IF a.k = "inf"
       THEN IF b.k = "inf" /\ b.s # a.s THEN NaN ELSE a
       ELSE IF b.k = "inf" THEN b
       ELSE LET g  == GCD(a.d, b.d)
                da == b.d \div g
                db == a.d \div g
                m  == a.s * a.n * da + b.s * b.n * db
                dd == a.d * da
            IN  IF m > 0 THEN Fin(1, m, dd)
                ELSE IF m < 0 THEN Fin(-1, -m, dd)
                ELSE IF IsZero(a) /\ IsZero(b) /\ a.s = -1 /\ b.s = -1
                     THEN Fin(-1, 0, 1)
                     ELSE Fin(1, 0, 1)

\* a - b
Sub(a, b) == Add(a, Neg(b))

\* a < b   (false when either side is NaN)
Lt(a, b) ==
  IF a.k = "nan" \/ b.k = "nan" THEN FALSE
  ELSE IF a.k = "inf" THEN a.s = -1 /\ ~(b.k = "inf" /\ b.s = -1)
  ELSE IF b.k = "inf" THEN b.s = 1
  ELSE LET g == GCD(a.d, b.d)
       IN  a.s * a.n * (b.d \div g) < b.s * b.n * (a.d \div g)

\* a >= b  (false when either side is NaN)
Ge(a, b) == a.k # "nan" /\ b.k # "nan" /\ ~Lt(a, b)

\* a == b on numbers (+0 equals -0, NaN equals nothing)
NumEq(a, b) == Ge(a, b) /\ Ge(b, a)

\* Math.max(a, b) of two numbers; +0 is larger than -0
MathMax(a, b) ==
  IF a.k = "nan" \/ b.k = "nan" THEN NaN
  ELSE IF Lt(a, b) THEN b
  ELSE IF Lt(b, a) THEN a
  ELSE IF a.s = 1 THEN a ELSE b

\* Math.abs(x)
MathAbs(x) == IF x.k \in {"fin", "inf"} THEN [x EXCEPT !.s = 1] ELSE x

\* Math.pow(x, i) for an integer exponent i >= 0; Math.pow(x, 0) is 1
RECURSIVE MathPow(_, _)
MathPow(x, i) == IF i = 0 THEN I(1) ELSE Mul(x, MathPow(x, i - 1))

\* x || dflt : dflt replaces null, 0, -0 and NaN
OrElse(x, dflt) ==
  IF x.k \in {"null", "nan"} \/ IsZero(x) THEN dflt ELSE x

\* x ?? dflt : dflt replaces null only
Nullish(x, dflt) == IF x.k = "null" THEN dflt ELSE x

\* !x : true of null, NaN, 0 and -0
Falsy(x) == x.k \in {"null", "nan"} \/ IsZero(x)

\* x <= 0 for a number or null (null converts to 0, NaN compares false)
LeZero(x) == IF x.k = "null" THEN TRUE ELSE Ge(I(0), x)

RECURSIVE IPow(_, _)
IPow(c, n) == IF n = 0 THEN 1 ELSE c * IPow(c, n - 1)

\* a power of two h with h^n > a, searched upwards from h
RECURSIVE RootUpper(_, _, _)
RootUpper(a, n, h) == IF IPow(h, n) > a THEN h ELSE RootUpper(a, n, 2 * h)

\* the largest integer c with c^n <= a, given lo^n <= a < hi^n
RECURSIVE RootBetween(_, _, _, _)
RootBetween(a, n, lo, hi) ==
  IF hi - lo <= 1 THEN lo
  ELSE LET mid == (lo + hi) \div 2
       IN  IF IPow(mid, n) <= a THEN RootBetween(a, n, mid, hi)
           ELSE RootBetween(a, n, lo, mid)

\* the largest integer c with c^n <= a, for a >= 0 and n >= 1
FloorRoot(a, n) == RootBetween(a, n, 0, RootUpper(a, n, 1))

RECURSIVE IsPow2(_)
IsPow2(d) == d = 1 \/ (d % 2 = 0 /\ IsPow2(d \div 2))

\* a finite value that a binary floating-point format can hold exactly
IsBinaryFraction(x) == x.k = "fin" /\ IsPow2(x.d)

\* resolution of the binary fractions that stand for rounded values
Ulp == R(1, IPow(2, UlpBits))

\* the n-th root of a positive finite x when it is rational, else NaN
ExactRoot(x, n) ==
  IF n = 1 THEN x
  ELSE LET rn == FloorRoot(x.n, n)
           rd == FloorRoot(x.d, n)
       IN  IF IPow(rn, n) = x.n /\ IPow(rd, n) = x.d THEN R(rn, rd) ELSE NaN

\* the n-th root of a positive finite x cut to a multiple of Ulp
RootBelow(x, n) ==
  LET S == IPow(2, UlpBits)
      q == (x.n * IPow(S, n)) \div x.d
  IN  R(IF n = 1 THEN q ELSE FloorRoot(q, n), S)

\* the n-th root of a positive finite x as binary floating point yields it:
\* the real root when the format holds it exactly, otherwise a neighbouring
\* binary fraction, below or above the root as the rounding of x, of 1 / n
\* and of the power decides
RoundedRoot(x, n, rounding) ==
  IF IsBinaryFraction(ExactRoot(x, n)) THEN ExactRoot(x, n)
  ELSE IF rounding = "down" THEN RootBelow(x, n)
  ELSE Add(RootBelow(x, n), Ulp)

\* Math.pow(x, 1 / n) for an integer n >= 1
MathPowRoot(x, n, rounding) ==
  IF x.k = "nan" THEN NaN
  ELSE IF n = 1 THEN
    IF x.k = "inf" \/ IsZero(x) THEN x
    ELSE IF x.s = 1 THEN RoundedRoot(x, 1, rounding)
    ELSE Neg(RoundedRoot(Neg(x), 1, rounding))
  ELSE IF x.k = "inf" THEN Inf(1)
  ELSE IF IsZero(x) THEN I(0)
  ELSE IF x.s = -1 THEN NaN
  ELSE RoundedRoot(x, n, rounding)

(***************************************************************************)
(* utils/valuation                                                         *)
(***************************************************************************)
MultipleType == {"pe", "evEbit", "evEbitda", "evRevenue", "evFcf"}

Scenarios == {"bear", "base", "bull"}

\* the side of the real root on which binary64 puts the computed one
Roundings == {"down", "up"}

\* calculateCAGR without the test start <= 0
calculateCAGRNoSignTest(start, end, years, rounding) ==
  IF Falsy(start) \/ Falsy(end) \/ years <= 0 THEN Null
  ELSE Mul(Sub(MathPowRoot(Div(end, start), years, rounding), I(1)), I(100))

\* calculateCAGR raising to the power years instead of 1 / years
calculateCAGRPower(start, end, years, rounding) ==
  IF Falsy(start) \/ Falsy(end) \/ years <= 0 \/ LeZero(start) THEN Null
  ELSE Mul(Sub(MathPow(Div(end, start), years), I(1)), I(100))

\* calculateCAGR(start, end, years)
calculateCAGR(start, end, years, rounding) ==
  IF Falsy(start) \/ Falsy(end) \/ years <= 0 \/ LeZero(start) THEN Null
  ELSE Mul(Sub(MathPowRoot(Div(end, start), years, rounding), I(1)), I(100))

\* the branches of the switch of calculateScenarioPrice: the price before
\* clamping, from the projected revenue and the projected share count
scenarioPe(projectedRevenue, projectedShares, targetMargin, exitMultiple, m) ==
  LET projectedNetIncome == Mul(projectedRevenue, targetMargin)
  IN  Div(Mul(projectedNetIncome, exitMultiple), projectedShares)

scenarioEvEbit(projectedRevenue, projectedShares, targetMargin, exitMultiple, m) ==
  LET operatingMargin == Mul(targetMargin, R(13, 10))
      projectedEbit == Mul(projectedRevenue, operatingMargin)
      equityValue ==
        Sub(Mul(projectedEbit, exitMultiple), OrElse(m.netDebt, I(0)))
  IN  Div(equityValue, projectedShares)

\* scenarioEvEbitda without the 1.2 scaling of the operating margin
scenarioEvEbitdaUnscaled(projectedRevenue, projectedShares, targetMargin, exitMultiple, m) ==
  LET operatingMargin == Mul(targetMargin, R(13, 10))
      projectedEbitda == Mul(projectedRevenue, operatingMargin)
      equityValue ==
        Sub(Mul(projectedEbitda, exitMultiple), OrElse(m.netDebt, I(0)))
  IN  Div(equityValue, projectedShares)

scenarioEvEbitda(projectedRevenue, projectedShares, targetMargin, exitMultiple, m) ==
  LET operatingMargin == Mul(targetMargin, R(13, 10))
      projectedEbitda == Mul(Mul(projectedRevenue, operatingMargin), R(6, 5))
      equityValue ==
        Sub(Mul(projectedEbitda, exitMultiple), OrElse(m.netDebt, I(0)))
  IN  Div(equityValue, projectedShares)

\* scenarioEvRevenue giving up with a price of 0 when the net debt is unknown
scenarioEvRevenueNoDebtNoPrice(projectedRevenue, projectedShares, targetMargin, exitMultiple, m) ==
  IF m.netDebt = Null THEN I(0)
  ELSE Div(Sub(Mul(projectedRevenue, exitMultiple), m.netDebt),
           projectedShares)

scenarioEvRevenue(projectedRevenue, projectedShares, targetMargin, exitMultiple, m) ==
  LET equityValue ==
        Sub(Mul(projectedRevenue, exitMultiple), OrElse(m.netDebt, I(0)))
  IN  Div(equityValue, projectedShares)

scenarioEvFcf(projectedRevenue, projectedShares, targetMargin, exitMultiple, m) ==
  LET projectedFcf == Mul(projectedRevenue, targetMargin)
      equityValue ==
        Sub(Mul(projectedFcf, exitMultiple), OrElse(m.netDebt, I(0)))
  IN  Div(equityValue, projectedShares)

\* projectedRevenueOf with the growth rate subtracted instead of added
projectedRevenueOfShrinking(currentRevenue, growthRate, years) ==
  Mul(currentRevenue, MathPow(Sub(I(1), growthRate), years))

\* const projectedRevenue = currentRevenue * Math.pow(1 + growthRate, years)
projectedRevenueOf(currentRevenue, growthRate, years) ==
  Mul(currentRevenue, MathPow(Add(I(1), growthRate), years))

\* const projectedShares = sharesOutstanding * Math.pow(1 + dilutionRate, years)
projectedSharesOf(sharesOutstanding, dilutionRate, years) ==
  Mul(sharesOutstanding, MathPow(Add(I(1), dilutionRate), years))

calculateScenarioPrice(currentRevenue, sharesOutstanding, growthRate, targetMargin, exitMultiple, dilutionRate, years, multipleType, m) ==
  LET projectedRevenue == projectedRevenueOf(currentRevenue, growthRate, years)
      projectedShares ==
        projectedSharesOf(sharesOutstanding, dilutionRate, years)
      price ==
        CASE multipleType = "pe" ->
               scenarioPe(projectedRevenue, projectedShares, targetMargin,
                          exitMultiple, m)
          [] multipleType = "evEbit" ->
               scenarioEvEbit(projectedRevenue, projectedShares, targetMargin,
                              exitMultiple, m)
          [] multipleType = "evEbitda" ->
               scenarioEvEbitda(projectedRevenue, projectedShares,
                                targetMargin, exitMultiple, m)
          [] multipleType = "evRevenue" ->
               scenarioEvRevenue(projectedRevenue, projectedShares,
                                 targetMargin, exitMultiple, m)
          [] multipleType = "evFcf" ->
               scenarioEvFcf(projectedRevenue, projectedShares, targetMargin,
                             exitMultiple, m)
          [] OTHER -> I(0)
  IN  MathMax(I(0), price)

\* the branches of the switch of calculateFairValuePrice: the price before
\* clamping
\* fairValuePe with the net debt subtracted as in the EV branches
fairValuePeLessDebt(currentRevenue, sharesOutstanding, targetMargin, exitMultiple, m) ==
  Div(Sub(Mul(Mul(currentRevenue, targetMargin), exitMultiple),
          OrElse(m.netDebt, I(0))),
      sharesOutstanding)

fairValuePe(currentRevenue, sharesOutstanding, targetMargin, exitMultiple, m) ==
  Div(Mul(Mul(currentRevenue, targetMargin), exitMultiple), sharesOutstanding)

fairValueEvEbit(currentRevenue, sharesOutstanding, targetMargin, exitMultiple, m) ==
  LET operatingMargin == Mul(targetMargin, R(13, 10))
      equityValue ==
        Sub(Mul(Mul(currentRevenue, operatingMargin), exitMultiple),
            OrElse(m.netDebt, I(0)))
  IN  Div(equityValue, sharesOutstanding)

\* fairValueEvEbitda without the 1.2 scaling of the operating margin
fairValueEvEbitdaUnscaled(currentRevenue, sharesOutstanding, targetMargin, exitMultiple, m) ==
  LET operatingMargin == Mul(targetMargin, R(13, 10))
      equityValue ==
        Sub(Mul(Mul(currentRevenue, operatingMargin), exitMultiple),
            OrElse(m.netDebt, I(0)))
  IN  Div(equityValue, sharesOutstanding)

fairValueEvEbitda(currentRevenue, sharesOutstanding, targetMargin, exitMultiple, m) ==
  LET operatingMargin == Mul(targetMargin, R(13, 10))
      equityValue ==
        Sub(Mul(Mul(Mul(currentRevenue, operatingMargin), R(6, 5)),
                exitMultiple),
            OrElse(m.netDebt, I(0)))
  IN  Div(equityValue, sharesOutstanding)

\* fairValueEvRevenue with the revenue scaled by the target margin
fairValueEvRevenueWithMargin(currentRevenue, sharesOutstanding, targetMargin, exitMultiple, m) ==
  LET equityValue ==
        Sub(Mul(Mul(currentRevenue, targetMargin), exitMultiple),
            OrElse(m.netDebt, I(0)))
  IN  Div(equityValue, sharesOutstanding)

fairValueEvRevenue(currentRevenue, sharesOutstanding, targetMargin, exitMultiple, m) ==
  LET equityValue ==
        Sub(Mul(currentRevenue, exitMultiple), OrElse(m.netDebt, I(0)))
  IN  Div(equityValue, sharesOutstanding)

\* fairValueEvFcf with the operating margin in place of the net margin
fairValueEvFcfOperatingMargin(currentRevenue, sharesOutstanding, targetMargin, exitMultiple, m) ==
  LET fcfMargin == Mul(targetMargin, R(13, 10))
      equityValue ==
        Sub(Mul(Mul(currentRevenue, fcfMargin), exitMultiple),
            OrElse(m.netDebt, I(0)))
  IN  Div(equityValue, sharesOutstanding)

fairValueEvFcf(currentRevenue, sharesOutstanding, targetMargin, exitMultiple, m) ==
  LET fcfMargin == targetMargin
      equityValue ==
        Sub(Mul(Mul(currentRevenue, fcfMargin), exitMultiple),
            OrElse(m.netDebt, I(0)))
  IN  Div(equityValue, sharesOutstanding)

calculateFairValuePrice(currentRevenue, sharesOutstanding, targetMargin, exitMultiple, multipleType, m) ==
  LET price ==
        CASE multipleType = "pe" ->
               fairValuePe(currentRevenue, sharesOutstanding, targetMargin,
                           exitMultiple, m)
          [] multipleType = "evEbit" ->
               fairValueEvEbit(currentRevenue, sharesOutstanding, targetMargin,
                               exitMultiple, m)
          [] multipleType = "evEbitda" ->
               fairValueEvEbitda(currentRevenue, sharesOutstanding,
                                 targetMargin, exitMultiple, m)
          [] multipleType = "evRevenue" ->
               fairValueEvRevenue(currentRevenue, sharesOutstanding,
                                  targetMargin, exitMultiple, m)
          [] multipleType = "evFcf" ->
               fairValueEvFcf(currentRevenue, sharesOutstanding, targetMargin,
                              exitMultiple, m)
          [] OTHER -> I(0)
  IN  MathMax(I(0), price)

\* ProjectionEntry with a missing revenue replaced by 1 instead of 0
ProjectionEntryRevenueOne(m, a, cy, i) ==
  LET currentRevenue == OrElse(m.revenue, I(1))
      sharesOutstanding == OrElse(m.sharesOutstanding, I(1))
      scen(s) ==
        calculateScenarioPrice(currentRevenue, sharesOutstanding,
                               Div(a.revenueGrowth[s], I(100)),
                               Div(a.targetMargin[s], I(100)),
                               a.exitMultiple[s],
                               Div(a.dilutionRate, I(100)),
                               i, a.multipleType, m)
  IN  [year |-> cy + i,
       bearCase |-> scen("bear"),
       baseCase |-> scen("base"),
       bullCase |-> scen("bull")]

\* one element of the array built by the loop of calculateProjections
ProjectionEntry(m, a, cy, i) ==
  LET currentRevenue == OrElse(m.revenue, I(0))
      sharesOutstanding == OrElse(m.sharesOutstanding, I(1))
      scen(s) ==
        calculateScenarioPrice(currentRevenue, sharesOutstanding,
                               Div(a.revenueGrowth[s], I(100)),
                               Div(a.targetMargin[s], I(100)),
                               a.exitMultiple[s],
                               Div(a.dilutionRate, I(100)),
                               i, a.multipleType, m)
  IN  [year |-> cy + i,
       bearCase |-> scen("bear"),
       baseCase |-> scen("base"),
       bullCase |-> scen("bull")]

\* calculateProjections with the loop condition i < assumptions.years
calculateProjectionsShort(m, a, cy) ==
  [i \in 1 .. a.years - 1 |-> ProjectionEntry(m, a, cy, i)]

calculateProjections(m, a, cy) ==
  [i \in 1 .. a.years |-> ProjectionEntry(m, a, cy, i)]

(***************************************************************************)
(* components/PricePredictor: the fairValueToday memo                      *)
(***************************************************************************)
\* the fairValueToday memo with ?? in place of || for the shares fallback
fairValueTodayMemoNullish(m, a) ==
  LET currentRevenue == OrElse(m.revenue, I(0))
      sharesOutstanding == Nullish(m.sharesOutstanding, I(1))
      fv(targetMargin, exitMultiple) ==
        calculateFairValuePrice(currentRevenue, sharesOutstanding,
                                Div(targetMargin, I(100)), exitMultiple,
                                a.multipleType, m)
  IN  [bear |-> fv(a.targetMargin.bear, a.exitMultiple.bear),
       base |-> fv(a.targetMargin.base, a.exitMultiple.base),
       bull |-> fv(a.targetMargin.bull, a.exitMultiple.bull)]

fairValueTodayMemo(m, a) ==
  LET currentRevenue == OrElse(m.revenue, I(0))
      sharesOutstanding == OrElse(m.sharesOutstanding, I(1))
      fv(targetMargin, exitMultiple) ==
        calculateFairValuePrice(currentRevenue, sharesOutstanding,
                                Div(targetMargin, I(100)), exitMultiple,
                                a.multipleType, m)
  IN  [bear |-> fv(a.targetMargin.bear, a.exitMultiple.bear),
       base |-> fv(a.targetMargin.base, a.exitMultiple.base),
       bull |-> fv(a.targetMargin.bull, a.exitMultiple.bull)]

(***************************************************************************)
(* components/PricePredictor: defaults derived from the metrics snapshot   *)
(***************************************************************************)
\* a && b used as a condition
Truthy(x) == ~(x.k \in {"null", "nan"} \/ IsZero(x))

enterpriseValueOf(m, mc) ==
  Nullish(m.enterpriseValue,
          IF mc.k # "null" /\ m.netDebt.k # "null"
          THEN Add(mc, m.netDebt) ELSE Null)

currentMultiples(m, mc) ==
  LET ev == enterpriseValueOf(m, mc)
      computedEvToEbit ==
        IF Truthy(ev) /\ Truthy(m.ebit) THEN Div(ev, m.ebit) ELSE m.evToEbit
      computedEvToEbitda ==
        IF Truthy(ev) /\ Truthy(m.ebitda)
        THEN Div(ev, m.ebitda) ELSE m.evToEbitda
      computedEvToRevenue ==
        IF Truthy(ev) /\ Truthy(m.revenue)
        THEN Div(ev, m.revenue) ELSE m.evToRevenue
      computedEvToFcf ==
        IF Truthy(ev) /\ Truthy(m.freeCashFlow)
        THEN Div(ev, m.freeCashFlow) ELSE Null
  IN  [pe |-> OrElse(m.peRatio, I(20)),
       evEbit |-> OrElse(computedEvToEbit, I(15)),
       evEbitda |-> OrElse(computedEvToEbitda, I(12)),
       evRevenue |-> OrElse(computedEvToRevenue, I(3)),
       evFcf |-> OrElse(computedEvToFcf, I(20))]

currentMargin(m) == Nullish(m.netMargin, I(10))

\* marginSpread without the floor of 5 percentage points
marginSpreadNoFloor(m) == Mul(MathAbs(currentMargin(m)), R(1, 4))

marginSpread(m) == MathMax(Mul(MathAbs(currentMargin(m)), R(1, 4)), I(5))

\* the argument of useState: the assumptions of a freshly mounted component
initialAssumptions(m, mc) ==
  [revenueGrowth |-> [bear |-> I(5), base |-> I(10), bull |-> I(18)],
   targetMargin |-> [bear |-> Sub(currentMargin(m), marginSpread(m)),
                     base |-> currentMargin(m),
                     bull |-> Add(currentMargin(m), marginSpread(m))],
   exitMultiple |-> [bear |-> Mul(currentMultiples(m, mc).pe, R(7, 10)),
                     base |-> currentMultiples(m, mc).pe,
                     bull |-> Mul(currentMultiples(m, mc).pe, R(13, 10))],
   multipleType |-> "pe",
   dilutionRate |-> I(1),
   years |-> 5]

\* updateAssumption writing the value into every scenario of the field
updateAssumptionAllScenarios(prev, scenario, field, value) ==
  [prev EXCEPT ![field] = [s \in DOMAIN prev[field] |-> value]]

\* updateAssumption(scenario, field, value) applied to the previous state
updateAssumption(prev, scenario, field, value) ==
  [prev EXCEPT ![field] = [prev[field] EXCEPT ![scenario] = value]]

\* the onClick handler setting the methodology only
\* the onClick handler rebuilding every assumption from the defaults
selectMethodologyResetAll(prev, m, mc, type) ==
  [initialAssumptions(m, mc) EXCEPT
     !.multipleType = type,
     !.exitMultiple =
        [bear |-> Mul(currentMultiples(m, mc)[type], R(7, 10)),
         base |-> currentMultiples(m, mc)[type],
         bull |-> Mul(currentMultiples(m, mc)[type], R(13, 10))]]

selectMethodologyOnly(prev, m, mc, type) == [prev EXCEPT !.multipleType = type]

\* the onClick handler of a methodology button applied to the previous state
selectMethodology(prev, m, mc, type) ==
  [prev EXCEPT !.multipleType = type,
               !.exitMultiple =
                  [bear |-> Mul(currentMultiples(m, mc)[type], R(7, 10)),
                   base |-> currentMultiples(m, mc)[type],
                   bull |-> Mul(currentMultiples(m, mc)[type], R(13, 10))]]

\* the onChange handler of the dilution input applied to the previous state
setDilutionRate(prev, v) == [prev EXCEPT !.dilutionRate = v]

(***************************************************************************)
(* State                                                                   *)
(***************************************************************************)
VARIABLES
  metrics,         \* the FinancialMetrics snapshot (prop of PricePredictor)
  marketCap,       \* the marketCap prop of PricePredictor
  assumptions,     \* the ProjectionAssumptions (state of PricePredictor)
  edits,           \* number of input edits made so far
  currentYear,     \* new Date().getFullYear() as read by the last render
  called,          \* the function of utils/valuation applied last
  projections,     \* result of calculateProjections
  fairValueToday,  \* result of the fairValueToday memo
  scenarioCall,    \* arguments and result of a call of calculateScenarioPrice
  cagrCall,        \* arguments and result of a call of calculateCAGR
  mounted,         \* PricePredictor is rendered by the page
  symbol,          \* the :symbol parameter of the route of StockPage
  loading,         \* useStockPageData: the loading state
  error,           \* useStockPageData: the error state
  data,            \* useStockPageData: the data state
  cache,           \* useStockPageData: the module-level cache
  now,             \* Date.now(), in minutes
  inflight,        \* the calls of getFullStockData that have not settled
  lookup,          \* history: the last call of getCached and its outcome
  summary,         \* the quoteSummary answer given to getFinancialMetrics
  normalised,      \* the result of getFinancialMetrics
  currentPrice,    \* the currentPrice prop of PricePredictor
  impliedReturns,  \* PricePredictor: the implied annual returns rendered
  query,           \* SearchBar: the query state
  results,         \* SearchBar: the results state (symbols found)
  isOpen,          \* SearchBar: the isOpen state
  searchLoading,   \* SearchBar: the loading state
  selectedIndex,   \* SearchBar: the selectedIndex state (0-based, -1 none)
  debounce,        \* SearchBar: the pending debounce timer and its query
  searches,        \* the calls of searchStocks that have not resolved
  navigated,       \* SearchBar: the route passed to navigate by the last event
  lastEvent        \* history: the last event SearchBar handled

\* the variables of StockPage and of its data hook
pageVars == <<symbol, loading, error, data, cache, now, inflight, lookup>>

\* the variables of YahooFinanceProvider.getFinancialMetrics
providerVars == <<summary, normalised>>

\* the variables of the implied returns of PricePredictor
returnVars == <<currentPrice, impliedReturns>>

\* the variables of SearchBar
searchVars == <<query, results, isOpen, searchLoading, selectedIndex,
                debounce, searches, navigated, lastEvent>>

otherVars == <<providerVars, returnVars, searchVars>>

vars == <<metrics, marketCap, assumptions, edits, currentYear, called,
          projections, fairValueToday, scenarioCall, cagrCall, mounted,
          pageVars, otherVars>>

Metrics(rev, sh, nd, nm, pe, ev, ebit, ebitda, fcf, e2ebit, e2ebitda, e2rev) ==
  [revenue |-> rev, sharesOutstanding |-> sh, netDebt |-> nd,
   netMargin |-> nm, peRatio |-> pe, enterpriseValue |-> ev,
   ebit |-> ebit, ebitda |-> ebitda, freeCashFlow |-> fcf,
   evToEbit |-> e2ebit, evToEbitda |-> e2ebitda, evToRevenue |-> e2rev]

Triple(a, b, c) == [bear |-> a, base |-> b, bull |-> c]

NoFairValue == Triple(Null, Null, Null)

NoScenarioCall ==
  [scenario |-> "none", years |-> 0, growthRate |-> Null,
   dilutionRate |-> Null, price |-> Null]

NoCagrCall == [start |-> Null, end |-> Null, years |-> 0, result |-> Null]

\* the assumptions while no PricePredictor is rendered
NoAssumptions ==
  [revenueGrowth |-> Triple(Null, Null, Null),
   targetMargin |-> Triple(Null, Null, Null),
   exitMultiple |-> Triple(Null, Null, Null),
   multipleType |-> "pe", dilutionRate |-> Null, years |-> 0]

\* the FinancialMetrics snapshot in which nothing is known
NoMetrics ==
  Metrics(Null, Null, Null, Null, Null, Null, Null, Null, Null, Null, Null,
          Null)

\* const EMPTY: FullStockData
EMPTY ==
  [of |-> "", quote |-> FALSE, marketCap |-> Null, hasMetrics |-> FALSE,
   metrics |-> NoMetrics]

NoError == ""

\* the symbols a route can name
Tickers == {"AAA", "BBB", "XXX"}

\* an absent entry of the cache
NoEntry == [data |-> EMPTY, ts |-> -1]

\* getCached was not called yet
NoLookup == [key |-> "", age |-> -1, found |-> FALSE]

\* no StockPage is mounted and nothing was ever fetched
NoPage ==
  /\ symbol = ""
  /\ loading = TRUE
  /\ error = NoError
  /\ data = EMPTY
  /\ cache = [t \in Tickers |-> NoEntry]
  /\ now = 0
  /\ inflight = [t \in Tickers |-> 0]
  /\ lookup = NoLookup

\* an upstream value that is a string, not a number
Str == [k |-> "str", s |-> 1, n |-> 0, d |-> 1]

\* the sections of a quoteSummary answer and the fields read from them
SummaryFields ==
  {"trailingPE", "forwardPE", "priceToSalesTrailing12Months", "pegRatio",
   "priceToBook", "enterpriseToEbitda", "enterpriseToRevenue",
   "statsNetIncomeToCommon", "trailingEps", "sharesOutstanding",
   "enterpriseValue", "totalDebt", "totalCash", "totalRevenue",
   "operatingMargins", "grossMargins", "profitMargins", "returnOnEquity",
   "returnOnAssets", "finNetIncomeToCommon", "ebitda", "freeCashflow"}

\* no quoteSummary answer: no section, no field
NoSummary ==
  [stats |-> FALSE, fin |-> FALSE, detail |-> FALSE,
   f |-> [x \in SummaryFields |-> Null]]

\* the fields of FinancialMetrics
MetricsFields ==
  {"peRatio", "forwardPE", "pegRatio", "priceToSales", "priceToBook",
   "evToEbitda", "evToEbit", "evToRevenue", "grossMargin",
   "operatingMargin", "netMargin", "roe", "roa", "revenue", "netIncome",
   "ebitda", "ebit", "eps", "freeCashFlow", "totalCash", "totalDebt",
   "netDebt", "sharesOutstanding", "enterpriseValue"}

\* getFinancialMetrics returned null
NoNormalised == [ok |-> FALSE, m |-> [x \in MetricsFields |-> Null]]

\* getFinancialMetrics was not called
NoProvider ==
  /\ summary = NoSummary
  /\ normalised = NoNormalised

\* no implied returns were rendered
NoReturns ==
  /\ currentPrice = Null
  /\ impliedReturns = Triple(Null, Null, Null)

\* no pending debounce timer
NoTimer == [pending |-> FALSE, query |-> ""]

\* the queries typed into SearchBar
Queries == {"a", "ab"}

\* the lists searchStocks resolves to
ResultLists == {<< >>, <<"AAA">>, <<"AAA", "BBB">>}

\* a SearchBar just mounted
NoSearch ==
  /\ query = ""
  /\ results = << >>
  /\ isOpen = FALSE
  /\ searchLoading = FALSE
  /\ selectedIndex = -1
  /\ debounce = NoTimer
  /\ searches = [q \in Queries |-> 0]
  /\ navigated = ""
  /\ lastEvent = "mount"

(***************************************************************************)
(* Inputs of the valuation engine                                          *)
(***************************************************************************)
RevenueSet == {Null, I(1000)}

SharesSet == {Null, I(0), I(100)}

NetDebtSet == {Null, I(0), I(200), I(-300), I(50000)}

GrowthTriples == {Triple(I(5), I(10), I(18)), Triple(I(-100), I(0), I(100))}

MarginTriples == {Triple(I(5), I(10), I(15)), Triple(I(-15), I(-10), I(-5))}

MultipleTriples == {Triple(I(14), I(20), I(26)), Triple(I(2), I(3), I(4))}

DilutionSet == {I(-100), I(0), I(100)}

CurrentYears == {2026, 2027}

EngineMetrics ==
  {Metrics(rev, sh, nd, Null, Null, Null, Null, Null, Null, Null, Null, Null) :
     rev \in RevenueSet, sh \in SharesSet, nd \in NetDebtSet}

EngineAssumptions ==
  {[revenueGrowth |-> g, targetMargin |-> tm, exitMultiple |-> x,
    multipleType |-> t, dilutionRate |-> dl, years |-> y] :
     g \in GrowthTriples, tm \in MarginTriples, x \in MultipleTriples,
     t \in MultipleType, dl \in DilutionSet, y \in 0 .. MaxYears}

(***************************************************************************)
(* The engine applied to drawn inputs                                      *)
(***************************************************************************)
InitEngine ==
  /\ metrics \in EngineMetrics
  /\ marketCap = Null
  /\ assumptions \in EngineAssumptions
  /\ edits = 0
  /\ currentYear = 2026
  /\ called = "none"
  /\ projections = << >>
  /\ fairValueToday = NoFairValue
  /\ scenarioCall = NoScenarioCall
  /\ cagrCall = NoCagrCall
  /\ mounted = FALSE
  /\ NoPage
  /\ NoProvider
  /\ NoReturns
  /\ NoSearch

\* const projections = useMemo(() => calculateProjections(...))
RenderProjections ==
  /\ called = "none"
  /\ \E cy \in CurrentYears :
       /\ currentYear' = cy
       /\ projections' = calculateProjections(metrics, assumptions, cy)
  /\ called' = "calculateProjections"
  /\ UNCHANGED <<metrics, marketCap, assumptions, edits, fairValueToday,
                 scenarioCall, cagrCall, mounted, pageVars, otherVars>>

\* const fairValueToday = useMemo(() => ...)
RenderFairValueToday ==
  /\ called = "none"
  /\ fairValueToday' = fairValueTodayMemo(metrics, assumptions)
  /\ called' = "calculateFairValuePrice"
  /\ UNCHANGED <<metrics, marketCap, assumptions, edits, currentYear,
                 projections, scenarioCall, cagrCall, mounted, pageVars, otherVars>>

\* calculateScenarioPrice applied to scenario s after i years, either with
\* the growth and dilution of the assumptions or with both set to zero
CallScenarioPrice ==
  /\ called = "none"
  /\ \E s \in Scenarios, i \in 0 .. MaxYears, zero \in BOOLEAN :
       LET g == IF zero THEN I(0)
                ELSE Div(assumptions.revenueGrowth[s], I(100))
           dl == IF zero THEN I(0) ELSE Div(assumptions.dilutionRate, I(100))
       IN  scenarioCall' =
             [scenario |-> s, years |-> i, growthRate |-> g,
              dilutionRate |-> dl,
              price |-> calculateScenarioPrice(
                          OrElse(metrics.revenue, I(0)),
                          OrElse(metrics.sharesOutstanding, I(1)),
                          g, Div(assumptions.targetMargin[s], I(100)),
                          assumptions.exitMultiple[s], dl, i,
                          assumptions.multipleType, metrics)]
  /\ called' = "calculateScenarioPrice"
  /\ UNCHANGED <<metrics, marketCap, assumptions, edits, currentYear,
                 projections, fairValueToday, cagrCall, mounted, pageVars, otherVars>>

NextEngine == RenderProjections \/ RenderFairValueToday \/ CallScenarioPrice

SpecEngine == InitEngine /\ [][NextEngine]_vars

(***************************************************************************)
(* The PricePredictor component: mount, then user input                    *)
(***************************************************************************)
NetMarginSet == {Null, I(-10), I(0), I(12), I(40)}

\* metrics snapshots: a profitable company with Yahoo's own enterprise
\* value and any net margin, a loss-making one whose enterprise value comes
\* from marketCap + netDebt, one with zero ratios, one with nothing known
SnapshotSet ==
  {<<Metrics(I(1000), I(100), I(200), nm, I(25), I(3000), I(200), I(250),
             I(150), I(16), I(11), I(4)), I(2800)>> : nm \in NetMarginSet}
  \cup
  {<<Metrics(I(500), I(50), I(200), I(-10), Null, Null, I(-100), I(0),
             Null, I(9), I(8), Null), I(2000)>>,
   <<Metrics(I(0), I(0), I(0), I(0), I(0), I(0), I(0), I(0),
             I(0), I(0), I(0), I(0)), I(0)>>,
   <<Metrics(Null, Null, Null, Null, Null, Null, Null, Null,
             Null, Null, Null, Null), Null>>}

\* values typed into an InputField
EditValues == {I(-5), I(100)}

Fields == {"revenueGrowth", "targetMargin", "exitMultiple"}

InitPredictor ==
  /\ \E snap \in SnapshotSet :
       /\ metrics = snap[1]
       /\ marketCap = snap[2]
  /\ assumptions = initialAssumptions(metrics, marketCap)
  /\ edits = 0
  /\ currentYear = 2026
  /\ called = "none"
  /\ projections = << >>
  /\ fairValueToday = NoFairValue
  /\ scenarioCall = NoScenarioCall
  /\ cagrCall = NoCagrCall
  /\ mounted = TRUE
  /\ NoPage
  /\ NoProvider
  /\ NoReturns
  /\ NoSearch

\* an InputField of a scenario reports a parsed value
UpdateAssumptionOf(scenario, field, value) ==
  /\ edits < MaxEdits
  /\ assumptions' = updateAssumption(assumptions, scenario, field, value)
  /\ edits' = edits + 1
  /\ UNCHANGED <<metrics, marketCap, currentYear, called, projections,
                 fairValueToday, scenarioCall, cagrCall, mounted, pageVars, otherVars>>

UpdateAssumption ==
  \E scenario \in Scenarios, field \in Fields, value \in EditValues :
    UpdateAssumptionOf(scenario, field, value)

\* the dilution InputField reports a parsed value
SetDilutionRate ==
  /\ edits < MaxEdits
  /\ \E value \in DilutionSet :
       assumptions' = setDilutionRate(assumptions, value)
  /\ edits' = edits + 1
  /\ UNCHANGED <<metrics, marketCap, currentYear, called, projections,
                 fairValueToday, scenarioCall, cagrCall, mounted, pageVars, otherVars>>

\* a click on one of the methodology buttons
SelectMethodologyOf(type) ==
  /\ assumptions' = selectMethodology(assumptions, metrics, marketCap, type)
  /\ UNCHANGED <<metrics, marketCap, edits, currentYear, called, projections,
                 fairValueToday, scenarioCall, cagrCall, mounted, pageVars, otherVars>>

SelectMethodology == \E type \in MultipleType : SelectMethodologyOf(type)

NextPredictor == UpdateAssumption \/ SetDilutionRate \/ SelectMethodology

SpecPredictor == InitPredictor /\ [][NextPredictor]_vars

(***************************************************************************)
(* calculateCAGR applied to drawn arguments                                *)
(***************************************************************************)
\* annual rates in percent
CagrRates == {I(-50), I(0), I(10), I(50), I(100)}

\* start prices: absent, not a number, zero, negative, positive
CagrStarts == {Null, NaN, I(0), I(-50), I(8), I(100)}

\* start compounded at r percent a year for n years
Compounded(start, r, n) ==
  Mul(start, MathPow(Add(I(1), Div(r, I(100))), n))

\* end prices: absent, not a number (a 0 / 0 price), infinite (a price
\* over 0 shares), the clamped floor 0, negative, and compounded starts
CagrEnds ==
  {Null, NaN, Inf(1), I(0), I(-100)}
  \cup {Compounded(start, r, n) :
          start \in {I(8), I(100)}, r \in CagrRates, n \in 1 .. MaxYears}

InitCAGR ==
  /\ metrics = NoMetrics
  /\ marketCap = Null
  /\ assumptions = NoAssumptions
  /\ edits = 0
  /\ currentYear = 2026
  /\ called = "none"
  /\ projections = << >>
  /\ fairValueToday = NoFairValue
  /\ scenarioCall = NoScenarioCall
  /\ \E start \in CagrStarts, end \in CagrEnds, years \in -1 .. MaxYears :
       cagrCall = [start |-> start, end |-> end, years |-> years,
                   result |-> Null]
  /\ mounted = FALSE
  /\ NoPage
  /\ NoProvider
  /\ NoReturns
  /\ NoSearch

\* calculateCAGR(start, end, years)
CallCAGR ==
  /\ called = "none"
  /\ \E rounding \in Roundings :
       cagrCall' =
         [cagrCall EXCEPT !.result = calculateCAGR(cagrCall.start,
                                       cagrCall.end, cagrCall.years, rounding)]
  /\ called' = "calculateCAGR"
  /\ UNCHANGED <<metrics, marketCap, assumptions, edits, currentYear,
                 projections, fairValueToday, scenarioCall, mounted, pageVars, otherVars>>

NextCAGR == CallCAGR

SpecCAGR == InitCAGR /\ [][NextCAGR]_vars

(***************************************************************************)
(* StockPage and useStockPageData: navigation between tickers              *)
(***************************************************************************)
\* const CACHE_TTL_MS = 5 * 60 * 1000, in minutes
CACHE_TTL == 5

\* minutes that pass between two events
TickSteps == {1, 5}

\* what getFullStockData resolves to: AAA is a profitable company, BBB a
\* loss-making one, any other symbol is unknown upstream (quote null)
Upstream(t) ==
  CASE t = "AAA" ->
         [of |-> t, quote |-> TRUE, marketCap |-> I(2800), hasMetrics |-> TRUE,
          metrics |-> Metrics(I(1000), I(100), I(200), I(12), I(25), I(3000),
                              I(200), I(250), I(150), I(16), I(11), I(4))]
    [] t = "BBB" ->
         [of |-> t, quote |-> TRUE, marketCap |-> I(2000), hasMetrics |-> TRUE,
          metrics |-> Metrics(I(500), I(50), I(200), I(-10), Null, Null,
                              I(-100), I(0), Null, I(9), I(8), Null)]
    [] OTHER -> [EMPTY EXCEPT !.of = t]

\* getCached with an entry of exactly CACHE_TTL minutes treated as stale
getCachedStrict(c, t, time) ==
  IF c[t] = NoEntry THEN [found |-> FALSE, data |-> EMPTY, cache |-> c]
  ELSE IF time - c[t].ts >= CACHE_TTL
       THEN [found |-> FALSE, data |-> EMPTY,
             cache |-> [c EXCEPT ![t] = NoEntry]]
       ELSE [found |-> TRUE, data |-> c[t].data, cache |-> c]

\* getCached(symbol) at the given time: whether an entry is served, the
\* data served, and the cache left behind (a stale entry is deleted)
getCached(c, t, time) ==
  IF c[t] = NoEntry THEN [found |-> FALSE, data |-> EMPTY, cache |-> c]
  ELSE IF time - c[t].ts > CACHE_TTL
       THEN [found |-> FALSE, data |-> EMPTY,
             cache |-> [c EXCEPT ![t] = NoEntry]]
       ELSE [found |-> TRUE, data |-> c[t].data, cache |-> c]

\* StockPage renders PricePredictor: neither the spinner nor the error
\* page is returned, and metrics and quote are known
PredictorRendered(l, e, d) == ~l /\ e = NoError /\ d.hasMetrics /\ d.quote

\* the marketCap prop: quote.marketCap || null
marketCapProp(d) == OrElse(d.marketCap, Null)

\* StockPage re-rendered with the hook state (l, e, d): a PricePredictor
\* that stays rendered keeps its state and receives the new props, one that
\* appears is mounted with the assumptions seeded from its props, one that
\* disappears is unmounted
RenderPage(l, e, d) ==
  IF PredictorRendered(l, e, d)
  THEN /\ mounted' = TRUE
       /\ metrics' = d.metrics
       /\ marketCap' = marketCapProp(d)
       /\ assumptions' =
            IF mounted THEN assumptions
            ELSE initialAssumptions(d.metrics, marketCapProp(d))
  ELSE /\ mounted' = FALSE
       /\ metrics' = NoMetrics
       /\ marketCap' = Null
       /\ assumptions' = NoAssumptions

InflightCount == inflight["AAA"] + inflight["BBB"] + inflight["XXX"]

\* StockPage mounted on the route of a ticker, its effect has run: nothing
\* is cached yet, the fetch is in flight and the spinner is shown
InitPage ==
  /\ symbol \in Tickers
  /\ loading = TRUE
  /\ error = NoError
  /\ data = EMPTY
  /\ cache = [t \in Tickers |-> NoEntry]
  /\ now = 0
  /\ inflight = [t \in Tickers |-> IF t = symbol THEN 1 ELSE 0]
  /\ lookup = [key |-> symbol, age |-> -1, found |-> FALSE]
  /\ mounted = FALSE
  /\ metrics = NoMetrics
  /\ marketCap = Null
  /\ assumptions = NoAssumptions
  /\ edits = 0
  /\ currentYear = 2026
  /\ called = "none"
  /\ projections = << >>
  /\ fairValueToday = NoFairValue
  /\ scenarioCall = NoScenarioCall
  /\ cagrCall = NoCagrCall
  /\ NoProvider
  /\ NoReturns
  /\ NoSearch

\* the route changes to ticker t and the effect of useStockPageData runs;
\* the state updates of the effect are applied in one render
Navigate(t) ==
  /\ t # symbol
  /\ symbol' = t
  /\ LET look == getCached(cache, t, now)
     IN  /\ cache' = look.cache
         /\ lookup' = [key |-> t,
                       age |-> IF cache[t] = NoEntry THEN -1
                               ELSE now - cache[t].ts,
                       found |-> look.found]
         /\ error' = NoError
         /\ IF look.found
            THEN /\ data' = look.data
                 /\ loading' = FALSE
                 /\ inflight' = inflight
                 /\ RenderPage(FALSE, NoError, look.data)
            ELSE /\ InflightCount < MaxInflight
                 /\ data' = EMPTY
                 /\ loading' = TRUE
                 /\ inflight' = [inflight EXCEPT ![t] = @ + 1]
                 /\ RenderPage(TRUE, NoError, EMPTY)
  /\ UNCHANGED <<now, edits, currentYear, called, projections,
                 fairValueToday, scenarioCall, cagrCall, otherVars>>

\* a call getFullStockData(t) resolves: the then and finally callbacks
Resolve(t) ==
  /\ inflight[t] > 0
  /\ inflight' = [inflight EXCEPT ![t] = @ - 1]
  /\ LET d == Upstream(t)
         e == IF d.quote THEN error ELSE "Could not find stock: " \o t
         nd == IF d.quote THEN d ELSE data
     IN  /\ error' = e
         /\ data' = nd
         /\ cache' = IF d.quote
                     THEN [cache EXCEPT ![t] = [data |-> d, ts |-> now]]
                     ELSE cache
         /\ loading' = FALSE
         /\ RenderPage(FALSE, e, nd)
  /\ UNCHANGED <<symbol, now, lookup, edits, currentYear, called, projections,
                 fairValueToday, scenarioCall, cagrCall, otherVars>>

\* a call getFullStockData(t) rejects: the catch and finally callbacks
Reject(t) ==
  /\ inflight[t] > 0
  /\ inflight' = [inflight EXCEPT ![t] = @ - 1]
  /\ error' = "Failed to load stock data. Please try again."
  /\ loading' = FALSE
  /\ RenderPage(FALSE, "Failed to load stock data. Please try again.", data)
  /\ UNCHANGED <<symbol, data, cache, now, lookup, edits, currentYear, called,
                 projections, fairValueToday, scenarioCall, cagrCall, otherVars>>

\* time passes
Tick ==
  /\ \E step \in TickSteps :
       /\ now + step <= MaxNow
       /\ now' = now + step
  /\ UNCHANGED <<metrics, marketCap, assumptions, edits, currentYear, called,
                 projections, fairValueToday, scenarioCall, cagrCall, mounted,
                 symbol, loading, error, data, cache, inflight, lookup,
                 otherVars>>

NavigateAny == \E t \in Tickers : Navigate(t)

ResolveAny == \E t \in Tickers : Resolve(t)

RejectAny == \E t \in Tickers : Reject(t)

NextPage == NavigateAny \/ ResolveAny \/ RejectAny \/ Tick

SpecPage == InitPage /\ [][NextPage]_vars

(***************************************************************************)
(* components/PricePredictor: the implied returns of a render              *)
(***************************************************************************)
\* impliedReturns computed from the first element of the projections
impliedReturnsOfFirstYear(p, price, years, rbear, rbase, rbull) ==
  IF Len(p) > 0
  THEN [bear |-> Nullish(calculateCAGR(price, p[1].bearCase, years, rbear),
                         I(0)),
        base |-> Nullish(calculateCAGR(price, p[1].baseCase, years, rbase),
                         I(0)),
        bull |-> Nullish(calculateCAGR(price, p[1].bullCase, years, rbull),
                         I(0))]
  ELSE Triple(I(0), I(0), I(0))

\* finalYear = projections[projections.length - 1] and the impliedReturns
\* object; each call of calculateCAGR rounds its root on its own
impliedReturnsOf(p, price, years, rbear, rbase, rbull) ==
  IF Len(p) > 0
  THEN [bear |-> Nullish(calculateCAGR(price, p[Len(p)].bearCase, years,
                                       rbear), I(0)),
        base |-> Nullish(calculateCAGR(price, p[Len(p)].baseCase, years,
                                       rbase), I(0)),
        bull |-> Nullish(calculateCAGR(price, p[Len(p)].bullCase, years,
                                       rbull), I(0))]
  ELSE Triple(I(0), I(0), I(0))

\* the currentPrice prop: quote.price
PriceSet == {I(0), I(20), I(100)}

\* growth rates of the scenarios, in percent
ReturnGrowthTriples ==
  {Triple(I(-100), I(0), I(100)), Triple(I(0), I(50), I(100))}

ReturnMetrics ==
  {Metrics(rev, sh, nd, Null, Null, Null, Null, Null, Null, Null, Null, Null) :
     rev \in RevenueSet, sh \in {I(0), I(100)}, nd \in {Null, I(200)}}

ReturnAssumptions ==
  {[revenueGrowth |-> g, targetMargin |-> tm,
    exitMultiple |-> Triple(I(14), I(20), I(26)),
    multipleType |-> t, dilutionRate |-> dl, years |-> y] :
     g \in ReturnGrowthTriples, tm \in MarginTriples,
     t \in {"pe", "evRevenue"},
     dl \in {I(0), I(100)}, y \in 0 .. MaxYears}

InitReturns ==
  /\ metrics \in ReturnMetrics
  /\ marketCap = Null
  /\ assumptions \in ReturnAssumptions
  /\ edits = 0
  /\ currentYear = 2026
  /\ called = "none"
  /\ projections = << >>
  /\ fairValueToday = NoFairValue
  /\ scenarioCall = NoScenarioCall
  /\ cagrCall = NoCagrCall
  /\ mounted = TRUE
  /\ NoPage
  /\ NoProvider
  /\ currentPrice \in PriceSet
  /\ impliedReturns = Triple(Null, Null, Null)
  /\ NoSearch

\* a render of PricePredictor: the projections memo, then impliedReturns
RenderImpliedReturns ==
  /\ called = "none"
  /\ projections' = calculateProjections(metrics, assumptions, currentYear)
  /\ \E rbear \in Roundings, rbase \in Roundings, rbull \in Roundings :
       impliedReturns' =
         impliedReturnsOf(projections', currentPrice, assumptions.years,
                          rbear, rbase, rbull)
  /\ called' = "impliedReturns"
  /\ UNCHANGED <<metrics, marketCap, assumptions, edits, currentYear,
                 fairValueToday, scenarioCall, cagrCall, mounted, pageVars,
                 providerVars, currentPrice, searchVars>>

NextReturns == RenderImpliedReturns

SpecReturns == InitReturns /\ [][NextReturns]_vars

(***************************************************************************)
(* YahooFinanceProvider.getFinancialMetrics applied to drawn answers       *)
(***************************************************************************)
\* num with 0 in place of null for a value that is not a finite number
numOrZero(v) == IF v.k = "fin" THEN v ELSE I(0)

\* num(v): v when it is a finite number, else null
num(v) == IF v.k = "fin" THEN v ELSE Null

\* pct(v): a decimal ratio as a percentage, or null
pct(v) ==
  LET n == num(v)
  IN  IF n # Null THEN Mul(n, I(100)) ELSE Null

\* section?.field of a quoteSummary answer
FieldOf(q, section, field) == IF q[section] THEN q.f[field] ELSE Null

\* getFinancialMetrics after fetchQuoteSummary has answered q
getFinancialMetrics(q) ==
  IF ~q.stats /\ ~q.fin THEN NoNormalised
  ELSE
    LET totalDebt == num(FieldOf(q, "fin", "totalDebt"))
        totalCash == num(FieldOf(q, "fin", "totalCash"))
        revenue == num(FieldOf(q, "fin", "totalRevenue"))
        operatingMarginDecimal == num(FieldOf(q, "fin", "operatingMargins"))
        ebit == IF revenue # Null /\ operatingMarginDecimal # Null
                THEN Mul(revenue, operatingMarginDecimal)
                ELSE Null
    IN  [ok |-> TRUE,
         m |-> [peRatio |-> num(FieldOf(q, "detail", "trailingPE")),
                forwardPE |-> num(FieldOf(q, "detail", "forwardPE")),
                pegRatio |-> num(FieldOf(q, "stats", "pegRatio")),
                priceToSales |->
                  num(FieldOf(q, "detail", "priceToSalesTrailing12Months")),
                priceToBook |-> num(FieldOf(q, "stats", "priceToBook")),
                evToEbitda |-> num(FieldOf(q, "stats", "enterpriseToEbitda")),
                evToEbit |-> Null,
                evToRevenue |->
                  num(FieldOf(q, "stats", "enterpriseToRevenue")),
                grossMargin |-> pct(FieldOf(q, "fin", "grossMargins")),
                operatingMargin |-> pct(FieldOf(q, "fin", "operatingMargins")),
                netMargin |-> pct(FieldOf(q, "fin", "profitMargins")),
                roe |-> pct(FieldOf(q, "fin", "returnOnEquity")),
                roa |-> pct(FieldOf(q, "fin", "returnOnAssets")),
                revenue |-> revenue,
                netIncome |->
                  Nullish(num(FieldOf(q, "fin", "finNetIncomeToCommon")),
                          num(FieldOf(q, "stats", "statsNetIncomeToCommon"))),
                ebitda |-> num(FieldOf(q, "fin", "ebitda")),
                ebit |-> ebit,
                eps |-> num(FieldOf(q, "stats", "trailingEps")),
                freeCashFlow |-> num(FieldOf(q, "fin", "freeCashflow")),
                totalCash |-> totalCash,
                totalDebt |-> totalDebt,
                netDebt |-> IF totalDebt # Null /\ totalCash # Null
                            THEN Sub(totalDebt, totalCash)
                            ELSE Null,
                sharesOutstanding |->
                  num(FieldOf(q, "stats", "sharesOutstanding")),
                enterpriseValue |->
                  num(FieldOf(q, "stats", "enterpriseValue"))]]

\* upstream values: missing, NaN, infinite, a string, zero, a ratio
RawValues == {Null, NaN, Inf(1), Str, I(0), R(1, 4)}

\* upstream values of the fields that are combined with one another
KeyValues == {Null, Inf(-1), I(0), I(40)}

\* the sections a quoteSummary answer can lack
SectionSets ==
  {{"stats", "fin", "detail"}, {"fin", "detail"}, {"stats", "detail"},
   {"stats", "fin"}, {"detail"}}

\* the answers drawn: the combined fields vary independently, the others
\* share one value
Summaries ==
  {[stats |-> "stats" \in secs, fin |-> "fin" \in secs,
    detail |-> "detail" \in secs,
    f |-> [x \in SummaryFields |->
             CASE x = "totalDebt" -> debt
               [] x = "totalCash" -> cash
               [] x = "totalRevenue" -> rev
               [] x = "operatingMargins" -> om
               [] x = "finNetIncomeToCommon" -> ni
               [] OTHER -> rest]] :
     secs \in SectionSets, debt \in KeyValues, cash \in KeyValues,
     rev \in KeyValues, om \in KeyValues, ni \in {Null, I(7)},
     rest \in RawValues}

InitProvider ==
  /\ metrics = NoMetrics
  /\ marketCap = Null
  /\ assumptions = NoAssumptions
  /\ edits = 0
  /\ currentYear = 2026
  /\ called = "none"
  /\ projections = << >>
  /\ fairValueToday = NoFairValue
  /\ scenarioCall = NoScenarioCall
  /\ cagrCall = NoCagrCall
  /\ mounted = FALSE
  /\ NoPage
  /\ summary \in Summaries
  /\ normalised = NoNormalised
  /\ NoReturns
  /\ NoSearch

\* getFinancialMetrics(symbol)
GetFinancialMetrics ==
  /\ called = "none"
  /\ normalised' = getFinancialMetrics(summary)
  /\ called' = "getFinancialMetrics"
  /\ UNCHANGED <<metrics, marketCap, assumptions, edits, currentYear,
                 projections, fairValueToday, scenarioCall, cagrCall, mounted,
                 pageVars, summary, returnVars, searchVars>>

NextProvider == GetFinancialMetrics

SpecProvider == InitProvider /\ [][NextProvider]_vars

(***************************************************************************)
(* components/SearchBar                                                    *)
(***************************************************************************)
\* the state of the rest of the application, which SearchBar leaves alone
notSearchVars ==
  <<metrics, marketCap, assumptions, edits, currentYear, called, projections,
    fairValueToday, scenarioCall, cagrCall, mounted, pageVars, providerVars,
    returnVars>>

\* query.toUpperCase()
toUpperCase(q) ==
  CASE q = "a" -> "A"
    [] q = "ab" -> "AB"
    [] OTHER -> q

\* searches that were started and have not resolved
SearchCount == searches["a"] + searches["ab"]

InitSearch ==
  /\ metrics = NoMetrics
  /\ marketCap = Null
  /\ assumptions = NoAssumptions
  /\ edits = 0
  /\ currentYear = 2026
  /\ called = "none"
  /\ projections = << >>
  /\ fairValueToday = NoFairValue
  /\ scenarioCall = NoScenarioCall
  /\ cagrCall = NoCagrCall
  /\ mounted = FALSE
  /\ NoPage
  /\ NoProvider
  /\ NoReturns
  /\ NoSearch

\* onChange sets the query to q and the debounce effect runs: the pending
\* timer is cleared, an empty query empties and closes the list, any other
\* query turns the spinner on and starts a timer
ChangeQuery(q) ==
  /\ q # query
  /\ query' = q
  /\ IF q = ""
     THEN /\ results' = << >>
          /\ isOpen' = FALSE
          /\ searchLoading' = searchLoading
          /\ debounce' = NoTimer
     ELSE /\ results' = results
          /\ isOpen' = isOpen
          /\ searchLoading' = TRUE
          /\ debounce' = [pending |-> TRUE, query |-> q]
  /\ navigated' = ""
  /\ lastEvent' = "change"
  /\ UNCHANGED <<selectedIndex, searches, notSearchVars>>

TypeQuery == \E q \in Queries : ChangeQuery(q)

ClearQuery == ChangeQuery("")

\* 300 ms have passed: the timer callback calls searchStocks(query)
TimerFires ==
  /\ debounce.pending
  /\ SearchCount < MaxSearches
  /\ searches' = [searches EXCEPT ![debounce.query] = @ + 1]
  /\ debounce' = NoTimer
  /\ navigated' = ""
  /\ lastEvent' = "timer"
  /\ UNCHANGED <<query, results, isOpen, searchLoading, selectedIndex,
                 notSearchVars>>

\* searchStocks(q) resolves to r: the rest of the timer callback
SearchResolves(q, r) ==
  /\ searches[q] > 0
  /\ searches' = [searches EXCEPT ![q] = @ - 1]
  /\ results' = r
  /\ isOpen' = (Len(r) > 0)
  /\ searchLoading' = FALSE
  /\ selectedIndex' = -1
  /\ navigated' = ""
  /\ lastEvent' = "response"
  /\ UNCHANGED <<query, debounce, notSearchVars>>

SearchResolvesAny ==
  \E q \in Queries, r \in ResultLists : SearchResolves(q, r)

\* handleSelect(sym): the query is emptied (the debounce effect runs when
\* that changes it), the list is closed and the route changes; the route
\* change keeps this SearchBar mounted (stays) or replaces it by a newly
\* mounted one, whose predecessor's searches resolve unheard
handleSelect(sym, stays) ==
  /\ navigated' = sym
  /\ IF stays
     THEN /\ query' = ""
          /\ isOpen' = FALSE
          /\ results' = IF query # "" THEN << >> ELSE results
          /\ debounce' = IF query # "" THEN NoTimer ELSE debounce
          /\ UNCHANGED <<searchLoading, selectedIndex, searches>>
     ELSE /\ query' = ""
          /\ results' = << >>
          /\ isOpen' = FALSE
          /\ searchLoading' = FALSE
          /\ selectedIndex' = -1
          /\ debounce' = NoTimer
          /\ searches' = [q \in Queries |-> 0]

\* handleKeyDown, key ArrowDown
KeyArrowDown ==
  /\ selectedIndex' =
       IF ~isOpen THEN selectedIndex
       ELSE IF selectedIndex + 1 < Len(results) - 1 THEN selectedIndex + 1
       ELSE Len(results) - 1
  /\ navigated' = ""
  /\ lastEvent' = "ArrowDown"
  /\ UNCHANGED <<query, results, isOpen, searchLoading, debounce, searches,
                 notSearchVars>>

\* handleKeyDown, key ArrowUp
KeyArrowUp ==
  /\ selectedIndex' =
       IF ~isOpen THEN selectedIndex
       ELSE IF selectedIndex - 1 > -1 THEN selectedIndex - 1
       ELSE -1
  /\ navigated' = ""
  /\ lastEvent' = "ArrowUp"
  /\ UNCHANGED <<query, results, isOpen, searchLoading, debounce, searches,
                 notSearchVars>>

\* handleKeyDown, key Enter
KeyEnter ==
  /\ lastEvent' = "Enter"
  /\ IF ~isOpen
     THEN /\ navigated' = ""
          /\ UNCHANGED <<query, results, isOpen, searchLoading, selectedIndex,
                         debounce, searches>>
     ELSE IF selectedIndex >= 0 /\ selectedIndex + 1 <= Len(results)
     THEN \E stays \in BOOLEAN :
            handleSelect(results[selectedIndex + 1], stays)
     ELSE IF query # ""
     THEN \E stays \in BOOLEAN : handleSelect(toUpperCase(query), stays)
     ELSE /\ navigated' = ""
          /\ UNCHANGED <<query, results, isOpen, searchLoading, selectedIndex,
                         debounce, searches>>
  /\ UNCHANGED notSearchVars

\* handleKeyDown, key Escape
KeyEscape ==
  /\ isOpen' = FALSE
  /\ navigated' = ""
  /\ lastEvent' = "Escape"
  /\ UNCHANGED <<query, results, searchLoading, selectedIndex, debounce,
                 searches, notSearchVars>>

\* a click on a button of the rendered list
ClickResult ==
  /\ isOpen
  /\ \E i \in 1 .. Len(results), stays \in BOOLEAN :
       handleSelect(results[i], stays)
  /\ lastEvent' = "click"
  /\ UNCHANGED notSearchVars

\* onFocus of the input
Focus ==
  /\ isOpen' = (IF Len(results) > 0 THEN TRUE ELSE isOpen)
  /\ navigated' = ""
  /\ lastEvent' = "focus"
  /\ UNCHANGED <<query, results, searchLoading, selectedIndex, debounce,
                 searches, notSearchVars>>

\* a mousedown outside the container
ClickOutside ==
  /\ isOpen' = FALSE
  /\ navigated' = ""
  /\ lastEvent' = "mousedown"
  /\ UNCHANGED <<query, results, searchLoading, selectedIndex, debounce,
                 searches, notSearchVars>>

NextSearch ==
  \/ TypeQuery
  \/ ClearQuery
  \/ TimerFires
  \/ SearchResolvesAny
  \/ KeyArrowDown
  \/ KeyArrowUp
  \/ KeyEnter
  \/ KeyEscape
  \/ ClickResult
  \/ Focus
  \/ ClickOutside

SpecSearch == InitSearch /\ [][NextSearch]_vars

(***************************************************************************)
(* Properties                                                              *)
(***************************************************************************)
\* the three prices of one element of a projection sequence
CasesOf(e) == {e.bearCase, e.baseCase, e.bullCase}

\* the inputs the engine works on after its fallbacks
RevenueUsed == OrElse(metrics.revenue, I(0))

SharesUsed == OrElse(metrics.sharesOutstanding, I(1))

NetDebtUsed == OrElse(metrics.netDebt, I(0))

MarginUsed(s) == Div(assumptions.targetMargin[s], I(100))

\* x is a number that is positive, or zero when the value v is negative:
\* x = max(0, v) stated without Math.max
IsClampOf(x, v) ==
  /\ IsFinite(x)
  /\ IF Lt(v, I(0)) THEN IsZero(x) ELSE NumEq(x, v)

\* C1: every price the engine emits is a number >= 0: each price of
\* fairValueToday and each bearCase/baseCase/bullCase of the projection
\* sequence, for every methodology and every drawn input; a negative equity
\* value gives the price 0.
C1_PricesNonNegative ==
  /\ called = "calculateFairValuePrice" =>
       \A s \in Scenarios : Ge(fairValueToday[s], I(0))
  /\ called = "calculateProjections" =>
       \A i \in DOMAIN projections :
         \A x \in CasesOf(projections[i]) : Ge(x, I(0))
  /\ called = "calculateScenarioPrice" => Ge(scenarioCall.price, I(0))

\* x is the price max(0, equity / shares) for the positive share count the
\* engine uses, stated by cross-multiplication
IsPriceOf(x, equity) ==
  /\ IsFinite(x)
  /\ IF Lt(equity, I(0)) THEN IsZero(x)
     ELSE NumEq(Mul(x, SharesUsed), equity)

FairValueDone(type) ==
  called = "calculateFairValuePrice" /\ assumptions.multipleType = type

\* C2: under pe the fair value of every scenario is
\* max(0, revenue * margin * multiple / shares), whatever netDebt is;
\* revenue 1000, margin 0.10, multiple 20, shares 100 give 20.
C2_PeFormula ==
  FairValueDone("pe") =>
    /\ \A s \in Scenarios :
         IsPriceOf(fairValueToday[s],
                   Mul(Mul(RevenueUsed, MarginUsed(s)),
                       assumptions.exitMultiple[s]))
    /\ \A nd \in NetDebtSet :
         fairValueTodayMemo([metrics EXCEPT !.netDebt = nd], assumptions)
           = fairValueToday
    /\ (/\ metrics.revenue = I(1000)
        /\ metrics.sharesOutstanding = I(100)
        /\ assumptions.targetMargin.base = I(10)
        /\ assumptions.exitMultiple.base = I(20))
       => fairValueToday.base = I(20)

C2_Witness ==
  /\ FairValueDone("pe")
  /\ metrics.revenue = I(1000)
  /\ metrics.sharesOutstanding = I(100)
  /\ metrics.netDebt = I(200)
  /\ assumptions.targetMargin.base = I(10)
  /\ assumptions.exitMultiple.base = I(20)
  /\ fairValueToday.base = I(20)

\* C3: under evRevenue the fair value of every scenario is
\* max(0, (revenue * multiple - netDebt) / shares), whatever the target
\* margins are; revenue 1000, multiple 3, netDebt 200, shares 100 give 28.
C3_EvRevenueFormula ==
  FairValueDone("evRevenue") =>
    /\ \A s \in Scenarios :
         IsPriceOf(fairValueToday[s],
                   Sub(Mul(RevenueUsed, assumptions.exitMultiple[s]),
                       NetDebtUsed))
    /\ \A tm \in MarginTriples :
         fairValueTodayMemo(metrics, [assumptions EXCEPT !.targetMargin = tm])
           = fairValueToday
    /\ (/\ metrics.revenue = I(1000)
        /\ metrics.sharesOutstanding = I(100)
        /\ metrics.netDebt = I(200)
        /\ assumptions.exitMultiple.base = I(3))
       => fairValueToday.base = I(28)

C3_Witness ==
  /\ FairValueDone("evRevenue")
  /\ metrics.revenue = I(1000)
  /\ metrics.sharesOutstanding = I(100)
  /\ metrics.netDebt = I(200)
  /\ assumptions.exitMultiple.base = I(3)
  /\ assumptions.targetMargin.base = I(-10)
  /\ fairValueToday.base = I(28)

\* the enterprise value behind a positive price: price * shares + netDebt
EnterpriseValueBehind(x) == Add(Mul(x, SharesUsed), NetDebtUsed)

\* C4: under evEbit the equity value is
\* revenue * (margin * 1.3) * multiple - netDebt and under evEbitda it is
\* revenue * (margin * 1.3) * 1.2 * multiple - netDebt, the price being
\* max(0, equity / shares); wherever both prices are positive the
\* enterprise value behind the evEbitda price is 1.2 times the one behind
\* the evEbit price of the same inputs.
C4_EvEbitFormulas ==
  /\ FairValueDone("evEbit") =>
       \A s \in Scenarios :
         IsPriceOf(fairValueToday[s],
                   Sub(Mul(Mul(RevenueUsed, Mul(MarginUsed(s), R(13, 10))),
                           assumptions.exitMultiple[s]),
                       NetDebtUsed))
  /\ FairValueDone("evEbitda") =>
       \A s \in Scenarios :
         /\ IsPriceOf(fairValueToday[s],
                      Sub(Mul(Mul(Mul(RevenueUsed,
                                      Mul(MarginUsed(s), R(13, 10))),
                                  R(6, 5)),
                              assumptions.exitMultiple[s]),
                          NetDebtUsed))
         /\ LET viaEbit ==
                  calculateFairValuePrice(RevenueUsed, SharesUsed,
                                          MarginUsed(s),
                                          assumptions.exitMultiple[s],
                                          "evEbit", metrics)
            IN  (Lt(I(0), fairValueToday[s]) /\ Lt(I(0), viaEbit)) =>
                  NumEq(EnterpriseValueBehind(fairValueToday[s]),
                        Mul(R(6, 5), EnterpriseValueBehind(viaEbit)))

C4_Witness ==
  /\ FairValueDone("evEbitda")
  /\ metrics.revenue = I(1000)
  /\ metrics.sharesOutstanding = I(100)
  /\ metrics.netDebt = I(200)
  /\ assumptions.targetMargin.base = I(10)
  /\ assumptions.exitMultiple.base = I(20)
  /\ fairValueToday.base = R(146, 5)

\* C5: under evFcf the fair value of every scenario is
\* max(0, (revenue * margin * multiple - netDebt) / shares); when netDebt is
\* 0 or unknown it is the pe fair value of the same inputs.
C5_EvFcfFormula ==
  FairValueDone("evFcf") =>
    /\ \A s \in Scenarios :
         IsPriceOf(fairValueToday[s],
                   Sub(Mul(Mul(RevenueUsed, MarginUsed(s)),
                           assumptions.exitMultiple[s]),
                       NetDebtUsed))
    /\ (metrics.netDebt = Null \/ IsZero(metrics.netDebt)) =>
         fairValueToday =
           fairValueTodayMemo(metrics,
                              [assumptions EXCEPT !.multipleType = "pe"])

C5_Witness ==
  /\ FairValueDone("evFcf")
  /\ metrics.netDebt = Null
  /\ metrics.revenue = I(1000)
  /\ metrics.sharesOutstanding = I(100)
  /\ assumptions.targetMargin.base = I(10)
  /\ assumptions.exitMultiple.base = I(20)
  /\ fairValueToday.base = I(20)

\* C6: calculateProjections returns exactly assumptions.years entries and
\* the k-th entry has year = currentYear + k.
C6_ProjectionYears ==
  called = "calculateProjections" =>
    /\ Len(projections) = assumptions.years
    /\ \A k \in 1 .. assumptions.years :
         projections[k].year = currentYear + k

C6_Witness ==
  /\ called = "calculateProjections"
  /\ assumptions.years = MaxYears
  /\ currentYear = 2027
  /\ Len(projections) = MaxYears
  /\ projections[MaxYears].year = 2027 + MaxYears

\* the price of scenario s in one element of a projection sequence
CaseOf(e, s) ==
  CASE s = "bear" -> e.bearCase
    [] s = "base" -> e.baseCase
    [] s = "bull" -> e.bullCase

\* revenue and share count compounded over i years
CompoundedRevenue(s, i) ==
  Mul(RevenueUsed,
      MathPow(Add(I(1), Div(assumptions.revenueGrowth[s], I(100))), i))

CompoundedShares(i) ==
  Mul(SharesUsed, MathPow(Add(I(1), Div(assumptions.dilutionRate, I(100))), i))

\* C7: for every projected year i, scenario s and methodology, the price
\* in the projection sequence is the value (NaN included) that
\* calculateFairValuePrice gives for the revenue compounded with growth[s]
\* and the share count compounded with the one shared dilution rate.
C7_ScenarioAgreesWithFairValue ==
  called = "calculateProjections" =>
    \A i \in DOMAIN projections : \A s \in Scenarios :
      CaseOf(projections[i], s) =
        calculateFairValuePrice(CompoundedRevenue(s, i), CompoundedShares(i),
                                MarginUsed(s), assumptions.exitMultiple[s],
                                assumptions.multipleType, metrics)

C7_Witness ==
  /\ called = "calculateProjections"
  /\ assumptions.years = MaxYears
  /\ assumptions.multipleType = "evEbitda"
  /\ assumptions.dilutionRate = I(100)
  /\ assumptions.revenueGrowth.bull = I(18)
  /\ Lt(I(0), projections[MaxYears].bearCase)
  /\ Lt(projections[MaxYears].bearCase, projections[MaxYears].bullCase)
  /\ Lt(projections[MaxYears].baseCase, projections[1].baseCase)

\* the assumptions with growth and dilution set to zero
ZeroGrowth(a, y) ==
  [a EXCEPT !.revenueGrowth = Triple(I(0), I(0), I(0)),
            !.dilutionRate = I(0),
            !.years = y]

\* C8: fair value today is the zero-growth, zero-dilution case of the
\* projection: calculateScenarioPrice with growthRate = 0 and
\* dilutionRate = 0 returns, for every year count i >= 0, the price
\* calculateFairValuePrice gives for the current revenue and shares, and
\* fairValueToday is what calculateProjections gives every year for the
\* same metrics (same revenue and shares fallbacks) at zero growth and
\* zero dilution.
C8_FairValueIsZeroGrowthCase ==
  /\ (/\ called = "calculateScenarioPrice"
      /\ IsZero(scenarioCall.growthRate)
      /\ IsZero(scenarioCall.dilutionRate)) =>
       scenarioCall.price =
         calculateFairValuePrice(RevenueUsed, SharesUsed,
                                 MarginUsed(scenarioCall.scenario),
                                 assumptions.exitMultiple[scenarioCall.scenario],
                                 assumptions.multipleType, metrics)
  /\ called = "calculateFairValuePrice" =>
       \A i \in 1 .. MaxYears : \A s \in Scenarios :
         CaseOf(calculateProjections(metrics,
                                     ZeroGrowth(assumptions, MaxYears),
                                     currentYear)[i], s)
           = fairValueToday[s]

C8_Witness ==
  /\ called = "calculateScenarioPrice"
  /\ scenarioCall.years = MaxYears
  /\ IsZero(scenarioCall.growthRate)
  /\ IsZero(scenarioCall.dilutionRate)
  /\ assumptions.dilutionRate = I(100)
  /\ metrics.sharesOutstanding = I(0)
  /\ metrics.revenue = I(1000)
  /\ Lt(I(0), scenarioCall.price)

\* the absolute value of a finite number, by its sign
AbsOf(x) == IF Lt(x, I(0)) THEN Neg(x) ELSE x

\* C9: the target margins seeded at mount are base = currentMargin (the net
\* margin, or 10 when it is unknown), bear = base - spread and
\* bull = base + spread with spread = max(|currentMargin| * 0.25, 5), so
\* bear < base < bull for every net margin.
C9_SeededMarginsOrdered ==
  edits = 0 =>
    LET cm == IF metrics.netMargin = Null THEN I(10) ELSE metrics.netMargin
        tm == assumptions.targetMargin
        spread == Sub(tm.bull, tm.base)
        quarter == Mul(AbsOf(cm), R(1, 4))
    IN  /\ NumEq(tm.base, cm)
        /\ NumEq(Sub(tm.base, tm.bear), spread)
        /\ Ge(spread, I(5)) /\ Ge(spread, quarter)
        /\ NumEq(spread, I(5)) \/ NumEq(spread, quarter)
        /\ Lt(tm.bear, tm.base) /\ Lt(tm.base, tm.bull)

C9_Witness ==
  /\ edits = 0
  /\ metrics.netMargin = I(-10)
  /\ assumptions.targetMargin = Triple(I(-15), I(-10), I(-5))

\* the exit multiples derived from the current multiple of a methodology
ScaledMultiples(type) ==
  LET cur == currentMultiples(metrics, marketCap)[type]
  IN  Triple(Mul(cur, R(7, 10)), cur, Mul(cur, R(13, 10)))

\* C10: at creation the methodology is pe with the exit multiples
\* currentMultiple.pe * (0.7, 1, 1.3); selecting a methodology m sets
\* multipleType to m and the exit multiples to
\* currentMultiple[m] * (0.7, 1, 1.3), whatever they were before.
C10_SelectResetsMultiples ==
  /\ assumptions.multipleType = "pe"
  /\ assumptions.exitMultiple = ScaledMultiples("pe")
  /\ [][\A type \in MultipleType :
          SelectMethodologyOf(type) =>
            /\ assumptions'.multipleType = type
            /\ assumptions'.exitMultiple = ScaledMultiples(type)]_vars

\* every edit made was an edit of an exit multiple, and a later selection
\* of evEbitda has overwritten them all
C10_Witness ==
  /\ edits = MaxEdits
  /\ metrics.netMargin = I(12)
  /\ metrics.peRatio = I(25)
  /\ assumptions.revenueGrowth = Triple(I(5), I(10), I(18))
  /\ assumptions.targetMargin = Triple(I(7), I(12), I(17))
  /\ assumptions.dilutionRate = I(1)
  /\ assumptions.multipleType = "evEbitda"
  /\ assumptions.exitMultiple = Triple(R(42, 5), I(12), R(78, 5))

(***************************************************************************)
(* calculateCAGR                                                           *)
(***************************************************************************)
\* calculateCAGR has returned
CagrDone == called = "calculateCAGR"

\* start is a positive number
CagrStartPositive == cagrCall.start.k \in {"fin", "inf"} /\ Lt(I(0), cagrCall.start)

\* C11: calculateCAGR(start, end, years) returns null (no NaN, no Infinity,
\* no exception) whenever start is <= 0 or absent, end is null/undefined,
\* or years <= 0.
C11_CagrNullOnInvalid ==
  (/\ CagrDone
   /\ \/ cagrCall.start.k = "null"
      \/ Ge(I(0), cagrCall.start)
      \/ cagrCall.end.k = "null"
      \/ cagrCall.years <= 0)
  => cagrCall.result = Null

\* a call with a negative start and otherwise valid arguments returned null
C11_Witness ==
  /\ CagrDone
  /\ cagrCall.start = I(-50)
  /\ cagrCall.end = I(121)
  /\ cagrCall.years = 1
  /\ cagrCall.result = Null

\* C12: for every start > 0, years > 0 and every numeric end >= 0, the end
\* value 0 included, calculateCAGR returns the defined value
\* ((end / start)^(1 / years) - 1) * 100, which is -100 for end = 0; the
\* result is never null there.
C12_CagrDefinedForNonNegativeEnd ==
  (/\ CagrDone
   /\ CagrStartPositive
   /\ cagrCall.years > 0
   /\ cagrCall.end.k = "fin"
   /\ Ge(cagrCall.end, I(0)))
  => /\ cagrCall.result # Null
     /\ IsZero(cagrCall.end) => cagrCall.result = I(-100)

\* the rates r > -100 of which the call is a round trip:
\* end = start * (1 + r / 100)^years
RoundTripRates ==
  {r \in CagrRates :
     /\ Lt(I(-100), r)
     /\ cagrCall.years >= 1
     /\ CagrStartPositive
     /\ cagrCall.end = Compounded(cagrCall.start, r, cagrCall.years)}

\* C13 as stated: calculateCAGR(start, start * (1 + r/100)^n, n) equals r
\* for every start > 0, r > -100 and n >= 1.
C13_RoundTripExact ==
  CagrDone => \A r \in RoundTripRates : cagrCall.result = r

\* C13 amended: calculateCAGR(start, start * (1 + r/100)^n, n) is a finite
\* number that differs from r by no more than the rounding error of the
\* root scaled by 100.
C13_RoundTripWithinRounding ==
  CagrDone =>
    \A r \in RoundTripRates :
      /\ cagrCall.result.k = "fin"
      /\ Ge(Mul(I(100), Ulp), MathAbs(Sub(cagrCall.result, r)))

\* a round trip at 10 percent over two years returned a value that is not
\* 10 but within the rounding error of it
C13_Witness ==
  /\ CagrDone
  /\ cagrCall.start = I(100)
  /\ cagrCall.end = I(121)
  /\ cagrCall.years = 2
  /\ I(10) \in RoundTripRates
  /\ cagrCall.result # I(10)
  /\ Ge(Mul(I(100), Ulp), MathAbs(Sub(cagrCall.result, I(10))))

(***************************************************************************)
(* Degenerate inputs of the engine                                         *)
(***************************************************************************)
\* C14: in calculateProjections the share count used as divisor is
\* non-zero in every projected year, for every metrics snapshot and every
\* assumptions value.
C14_DivisorNonZero ==
  called = "calculateProjections" =>
    \A i \in DOMAIN projections :
      ~IsZero(projectedSharesOf(SharesUsed,
                                Div(assumptions.dilutionRate, I(100)), i))

\* metrics.revenue is missing, metrics.sharesOutstanding is missing
RevenueMissing == metrics.revenue = Null

SharesMissing == metrics.sharesOutstanding = Null

EquityWithoutRevenue ==
  IF assumptions.multipleType = "pe" THEN I(0) ELSE Neg(NetDebtUsed)

ZeroNetDebt == [metrics EXCEPT !.netDebt = I(0)]

\* C16: under each EV methodology a snapshot with netDebt = null gives the
\* prices of the same snapshot with netDebt = 0, in calculateFairValuePrice
\* and in calculateScenarioPrice (and so in calculateProjections).
C16_NullNetDebtIsZero ==
  (metrics.netDebt = Null /\ assumptions.multipleType # "pe") =>
    /\ called = "calculateFairValuePrice" =>
         fairValueToday = fairValueTodayMemo(ZeroNetDebt, assumptions)
    /\ called = "calculateProjections" =>
         projections = calculateProjections(ZeroNetDebt, assumptions,
                                            currentYear)
    /\ called = "calculateScenarioPrice" =>
         scenarioCall.price =
           calculateScenarioPrice(
             RevenueUsed, SharesUsed, scenarioCall.growthRate,
             MarginUsed(scenarioCall.scenario),
             assumptions.exitMultiple[scenarioCall.scenario],
             scenarioCall.dilutionRate, scenarioCall.years,
             assumptions.multipleType, ZeroNetDebt)

\* calculateScenarioPrice priced a company of unknown net debt by its
\* revenue, at a positive price
C16_Witness ==
  /\ called = "calculateScenarioPrice"
  /\ metrics.netDebt = Null
  /\ assumptions.multipleType = "evRevenue"
  /\ scenarioCall.years = 2
  /\ Lt(I(0), scenarioCall.price)
  /\ IsFinite(scenarioCall.price)

(***************************************************************************)
(* Monotonicity of the scenario price in the growth rate                   *)
(***************************************************************************)
\* growth rates (as fractions) the growth rate of a call is compared with
GrowthRatesCompared == {I(-3), I(-1), I(0), R(1, 10), I(1)}

\* the revenue projected by the call of calculateScenarioPrice in
\* scenarioCall had its growth rate been g
RevenueAtGrowth(g) == projectedRevenueOf(RevenueUsed, g, scenarioCall.years)

\* the price of that call had its growth rate been g
PriceAtGrowth(g) ==
  IF g = scenarioCall.growthRate THEN scenarioCall.price
  ELSE calculateScenarioPrice(
         RevenueUsed, SharesUsed, g, MarginUsed(scenarioCall.scenario),
         assumptions.exitMultiple[scenarioCall.scenario],
         scenarioCall.dilutionRate, scenarioCall.years,
         assumptions.multipleType, metrics)

\* a call of calculateScenarioPrice under pe for a projected year i >= 1
PeCallDone ==
  /\ called = "calculateScenarioPrice"
  /\ assumptions.multipleType = "pe"
  /\ scenarioCall.years >= 1

\* the growth rate of the call paired with each compared rate, smaller
\* rate first
GrowthPairs ==
  {<<scenarioCall.growthRate, g>> : g \in GrowthRatesCompared}
  \cup {<<g, scenarioCall.growthRate>> : g \in GrowthRatesCompared}

C19_UpdateChangesOneField ==
  [][\A scenario \in Scenarios, field \in Fields, value \in EditValues :
       UpdateAssumptionOf(scenario, field, value) =>
         /\ assumptions'[field][scenario] = value
         /\ \A other \in Scenarios \ {scenario} :
              assumptions'[field][other] = assumptions[field][other]
         /\ \A other \in Fields \ {field} :
              assumptions'[other] = assumptions[other]
         /\ assumptions'.multipleType = assumptions.multipleType
         /\ assumptions'.dilutionRate = assumptions.dilutionRate
         /\ assumptions'.years = assumptions.years]_vars

\* after an edit the bear growth rate is above the bull one, the base and
\* bull rates still being the seeded ones
C19_Witness ==
  /\ edits = 1
  /\ assumptions.revenueGrowth = Triple(I(100), I(10), I(18))
  /\ assumptions.targetMargin = initialAssumptions(metrics, marketCap).targetMargin
  /\ assumptions.exitMultiple = initialAssumptions(metrics, marketCap).exitMultiple

(***************************************************************************)
(* The assumptions across ticker navigations                               *)
(***************************************************************************)
\* the assumptions PricePredictor seeds from the metrics of ticker t
DefaultsOf(t) ==
  initialAssumptions(Upstream(t).metrics, marketCapProp(Upstream(t)))

\* C20: whenever PricePredictor is rendered for a ticker and no input was
\* edited, targetMargin and exitMultiple are the defaults derived from the
\* metrics snapshot of that ticker, after any sequence of navigations,
\* served from the network or from the cache.
C20_DefaultsOfCurrentTicker ==
  (mounted /\ edits = 0) =>
    /\ assumptions.targetMargin = DefaultsOf(symbol).targetMargin
    /\ assumptions.exitMultiple = DefaultsOf(symbol).exitMultiple

(***************************************************************************)
(* Normalisation of upstream data                                          *)
(***************************************************************************)
\* the upstream value is a finite number
Known(v) == v.k = "fin"

\* the value the answer in summary holds for a field of a section
Raw(section, field) == FieldOf(summary, section, field)

\* the fields of FinancialMetrics copied from one upstream field each
DirectSource ==
  [peRatio |-> <<"detail", "trailingPE">>,
   forwardPE |-> <<"detail", "forwardPE">>,
   pegRatio |-> <<"stats", "pegRatio">>,
   priceToSales |-> <<"detail", "priceToSalesTrailing12Months">>,
   priceToBook |-> <<"stats", "priceToBook">>,
   evToEbitda |-> <<"stats", "enterpriseToEbitda">>,
   evToRevenue |-> <<"stats", "enterpriseToRevenue">>,
   grossMargin |-> <<"fin", "grossMargins">>,
   operatingMargin |-> <<"fin", "operatingMargins">>,
   netMargin |-> <<"fin", "profitMargins">>,
   roe |-> <<"fin", "returnOnEquity">>,
   roa |-> <<"fin", "returnOnAssets">>,
   revenue |-> <<"fin", "totalRevenue">>,
   ebitda |-> <<"fin", "ebitda">>,
   eps |-> <<"stats", "trailingEps">>,
   freeCashFlow |-> <<"fin", "freeCashflow">>,
   totalCash |-> <<"fin", "totalCash">>,
   totalDebt |-> <<"fin", "totalDebt">>,
   sharesOutstanding |-> <<"stats", "sharesOutstanding">>,
   enterpriseValue |-> <<"stats", "enterpriseValue">>]

\* C21: getFinancialMetrics never turns an unknown value into 0: a field
\* whose upstream value is missing or not a finite number is null, netDebt
\* is null unless totalDebt and totalCash are both known, ebit is null
\* unless revenue and operating margin are both known.
C21_UnknownStaysNull ==
  (called = "getFinancialMetrics" /\ normalised.ok) =>
    /\ \A x \in DOMAIN DirectSource :
         ~Known(Raw(DirectSource[x][1], DirectSource[x][2])) =>
           normalised.m[x] = Null
    /\ (~Known(Raw("fin", "finNetIncomeToCommon"))
        /\ ~Known(Raw("stats", "statsNetIncomeToCommon"))) =>
         normalised.m.netIncome = Null
    /\ normalised.m.evToEbit = Null
    /\ ~(Known(Raw("fin", "totalDebt")) /\ Known(Raw("fin", "totalCash"))) =>
         normalised.m.netDebt = Null
    /\ ~(Known(Raw("fin", "totalRevenue"))
         /\ Known(Raw("fin", "operatingMargins"))) =>
         normalised.m.ebit = Null

\* an answer with a known debt of 0, an infinite cash figure, a known
\* revenue without operating margin and NaN elsewhere was normalised
C21_Witness ==
  /\ called = "getFinancialMetrics"
  /\ normalised.ok
  /\ summary.stats /\ summary.fin /\ summary.detail
  /\ summary.f.totalDebt = I(0)
  /\ summary.f.totalCash = Inf(-1)
  /\ summary.f.totalRevenue = I(40)
  /\ summary.f.operatingMargins = Null
  /\ summary.f.trailingPE = NaN
  /\ normalised.m.totalDebt = I(0)
  /\ normalised.m.netDebt = Null
  /\ normalised.m.ebit = Null
  /\ normalised.m.peRatio = Null

(***************************************************************************)
(* The hook state across navigations, responses and the cache              *)
(***************************************************************************)
\* C22: whenever loading is false and error is null, the data in the state
\* of useStockPageData is the data fetched for the current symbol, for any
\* order in which the fetches of an earlier and of the current symbol
\* settle: never the data of another symbol and never EMPTY.
C22_DataIsCurrentSymbol ==
  (~loading /\ error = NoError) => data = Upstream(symbol)

\* the entry of ticker t is served by a lookup at the current time
Fresh(t) == cache[t] # NoEntry /\ now - cache[t].ts <= CACHE_TTL

\* C23: a lookup of the cache serves the stored data only if now - ts is at
\* most 5 minutes (the view then shows that data without loading and
\* without a fetch); any other lookup leaves no entry for the symbol,
\* serves nothing and the hook starts a fetch with the spinner shown.
C23_CacheServesOnlyFresh ==
  [][\A t \in Tickers :
       Navigate(t) =>
         IF Fresh(t)
         THEN /\ data' = cache[t].data
              /\ ~loading'
              /\ cache' = cache
              /\ inflight' = inflight
         ELSE /\ cache' = [cache EXCEPT ![t] = NoEntry]
              /\ data' = EMPTY
              /\ loading'
              /\ inflight' = [inflight EXCEPT ![t] = @ + 1]]_vars

\* an entry older than 5 minutes was looked up: it is gone from the cache
\* and the view of that symbol is loading from the network
C23_Witness ==
  /\ lookup.age > CACHE_TTL
  /\ ~lookup.found
  /\ lookup.key = symbol
  /\ cache[symbol] = NoEntry
  /\ loading
  /\ inflight[symbol] > 0

\* C24: a fetch that resolves with quote = null sets the error naming the
\* symbol, leaves data EMPTY and writes nothing to the cache; a fetch that
\* rejects sets the generic error; both end loading and leave the symbol
\* uncached, so that a later view of it fetches again.
C24_FailedLoadsSurfaced ==
  [][\A t \in Tickers :
       /\ (Resolve(t) /\ ~Upstream(t).quote) =>
            /\ error' = "Could not find stock: " \o t
            /\ data' = EMPTY
            /\ cache' = cache
            /\ ~loading'
            /\ ~getCached(cache', t, now').found
       /\ Reject(t) =>
            /\ error' = "Failed to load stock data. Please try again."
            /\ cache' = cache
            /\ ~loading']_vars

(***************************************************************************)
(* The methodology buttons                                                 *)
(***************************************************************************)
\* C25: a click on a methodology button leaves revenueGrowth and
\* targetMargin of all three scenarios, dilutionRate and years as they
\* were, user edits included.
C25_SelectKeepsOtherAssumptions ==
  [][\A type \in MultipleType :
       SelectMethodologyOf(type) =>
         /\ assumptions'.revenueGrowth = assumptions.revenueGrowth
         /\ assumptions'.targetMargin = assumptions.targetMargin
         /\ assumptions'.dilutionRate = assumptions.dilutionRate
         /\ assumptions'.years = assumptions.years]_vars

\* a growth rate and a margin were edited and a methodology other than the
\* initial one is selected with its own multiples: the edits are in place
C25_Witness ==
  /\ edits = MaxEdits
  /\ metrics.netMargin = I(12)
  /\ assumptions.multipleType = "evFcf"
  /\ assumptions.exitMultiple = ScaledMultiples("evFcf")
  /\ assumptions.revenueGrowth = Triple(I(5), I(100), I(18))
  /\ assumptions.targetMargin = Triple(I(-5), I(12), I(17))
  /\ assumptions.dilutionRate = I(1)
  /\ assumptions.years = 5

\* the exit multiples are positive and in the order bear < base < bull
MultiplesPositiveOrdered(a) ==
  /\ a.exitMultiple.bear.k = "fin"
  /\ a.exitMultiple.base.k = "fin"
  /\ a.exitMultiple.bull.k = "fin"
  /\ Lt(I(0), a.exitMultiple.bear)
  /\ Lt(a.exitMultiple.bear, a.exitMultiple.base)
  /\ Lt(a.exitMultiple.base, a.exitMultiple.bull)

\* C26: at initialisation and after every methodology change the exit
\* multiples are positive and ordered bear < base < bull for every metrics
\* snapshot, a missing or zero current multiple being replaced by the
\* fallback of the methodology.
C26_DefaultMultiplesPositiveOrdered ==
  /\ MultiplesPositiveOrdered(assumptions)
  /\ [][\A type \in MultipleType :
          SelectMethodologyOf(type) => MultiplesPositiveOrdered(assumptions')]_vars

(***************************************************************************)
(* The implied annualized returns                                          *)
(***************************************************************************)
\* PricePredictor has rendered its implied returns
ReturnsDone == called = "impliedReturns"

\* the price of a scenario in the last element of the projections
FinalPrice(s) ==
  LET finalYear == projections[Len(projections)]
  IN  CASE s = "bear" -> finalYear.bearCase
        [] s = "base" -> finalYear.baseCase
        [] s = "bull" -> finalYear.bullCase

\* C27: the implied return of each scenario is
\* calculateCAGR(currentPrice, price of the scenario in the last element of
\* the projections, assumptions.years) when that is not null, 0 when it is
\* null, and 0 for every scenario when the projections are empty.
C27_ImpliedReturnsFromFinalYear ==
  ReturnsDone =>
    /\ projections = calculateProjections(metrics, assumptions, currentYear)
    /\ \A s \in Scenarios :
         IF Len(projections) = 0 THEN impliedReturns[s] = I(0)
         ELSE \E rounding \in Roundings :
                LET cagr == calculateCAGR(currentPrice, FinalPrice(s),
                                          assumptions.years, rounding)
                IN  IF cagr = Null THEN impliedReturns[s] = I(0)
                    ELSE impliedReturns[s] = cagr

\* projections of MaxYears years whose first and last bull prices differ:
\* the bear return is the 0 standing for a null CAGR, the bull return is a
\* positive rate
C27_Witness ==
  /\ ReturnsDone
  /\ Len(projections) = MaxYears
  /\ projections[1].bullCase # projections[MaxYears].bullCase
  /\ calculateCAGR(currentPrice, FinalPrice("bear"), assumptions.years,
                   "down") = Null
  /\ impliedReturns.bear = I(0)
  /\ impliedReturns.bull.k = "fin"
  /\ Lt(I(0), impliedReturns.bull)

(***************************************************************************)
(* SearchBar                                                               *)
(***************************************************************************)
\* C28: the loading indicator of SearchBar is on only while a debounce
\* timer is pending or a search is in flight: after any sequence of query
\* edits, clearing the query and selecting a result included, loading is
\* false once no timer is pending and no search is in flight.
C28_LoadingOnlyWhileSearching ==
  (~debounce.pending /\ SearchCount = 0) => ~searchLoading

\* the response of a search for q arrives when the query is no longer q
StaleResponse(q, r) == SearchResolves(q, r) /\ q # query

\* a change of the query clears the pending timer: the search it stood
\* for is never started
ChangeCancelsTimer ==
  [][\A q \in Queries \cup {""} :
       ChangeQuery(q) =>
         /\ searches' = searches
         /\ debounce' = IF q = "" THEN NoTimer
                        ELSE [pending |-> TRUE, query |-> q]]_vars

\* the response of a search issued for an earlier query changes neither
\* the results nor opens the dropdown
StaleResponsesDropped ==
  [][\A q \in Queries, r \in ResultLists :
       StaleResponse(q, r) => (results' = results /\ (isOpen' => isOpen))]_vars

\* the dropdown is not open while the query is empty
ClosedWhileEmpty == [](isOpen => query # "")

\* C29: a change of the query cancels the pending timer, the response of
\* a search issued for an earlier query never replaces the results and
\* never reopens the dropdown, and the dropdown is never open while the
\* query is empty.
C29_OnlyLatestQueryApplied ==
  ChangeCancelsTimer /\ StaleResponsesDropped /\ ClosedWhileEmpty

\* while the dropdown is open the selected index is -1 or an index of the
\* results
SelectionInBounds ==
  [](isOpen => (-1 <= selectedIndex /\ selectedIndex <= Len(results) - 1))

\* arriving results reset the selected index
ResponsesResetSelection ==
  [][\A q \in Queries, r \in ResultLists :
       SearchResolves(q, r) => selectedIndex' = -1]_vars

\* an item of the rendered list is highlighted
Highlighted == isOpen /\ selectedIndex >= 0 /\ selectedIndex < Len(results)

\* Enter navigates to the highlighted item, and otherwise to the
\* upper-cased query when that is not empty
EnterNavigates ==
  [][KeyEnter =>
       IF Highlighted THEN navigated' = results[selectedIndex + 1]
       ELSE query # "" => navigated' = toUpperCase(query)]_vars

\* C30: whenever the dropdown is open, -1 <= selectedIndex <=
\* results.length - 1; new results reset selectedIndex to -1; Enter
\* navigates to results[selectedIndex].symbol when an item is highlighted
\* and otherwise to the upper-cased non-empty query.
C30_KeyboardSelection ==
  SelectionInBounds /\ ResponsesResetSelection /\ EnterNavigates

====
